---- MODULE Spec2Model ----
(***************************************************************************)
(* A model of the EneHealths billing and insurance reimbursement agents    *)
(* (standalone_billing_demo.py) and of the EneHealths assistant            *)
(* (standalone_ene_health_agent.py).                                       *)
(*                                                                         *)
(* Conventions:                                                            *)
(*  - a Python dict is a TLA+ record (a function on its keys); a key that  *)
(*    is absent from the dict is absent from the record's DOMAIN;          *)
(*  - a Python list is a sequence;                                         *)
(*  - money is counted in cents, coverage in percent, so that the          *)
(*    arithmetic is over integers;                                         *)
(*  - uuid.uuid4() is an input of the operation: a natural number drawn    *)
(*    among those not issued yet, <<"CLM", n>> standing for f"CLM-{hex}";  *)
(*  - datetime.now() fields (timestamps, dates) are left out of records;   *)
(*  - a Python str that the program searches or transforms is a sequence   *)
(*    of one-character strings; a text that it only copies into its output *)
(*    is one element of such a sequence, and + and f-strings are \o.       *)
(***************************************************************************)
EXTENDS Integers, Sequences, FiniteSets, TLC

VARIABLES
    transactions,    \* BillingAgent.transactions
    invoices,        \* BillingAgent.invoices
    claims,          \* InsuranceReimbursementAgent.claims
    reimbursements,  \* InsuranceReimbursementAgent.reimbursements
    thoughts,        \* SimpleThoughtTracker.thoughts (the agent's thought_tracker)
    tracker_max_history,  \* SimpleThoughtTracker.max_history
    added,           \* history variable: every thought given to add_thought
                     \* since the tracker was built, in order
    last             \* the last call: its name, its arguments, its return value

vars ==
    <<transactions, invoices, claims, reimbursements, thoughts,
      tracker_max_history, added, last>>

---------------------------------------------------------------------------
(* Bounds of the model. *)

MaxClaims == 2

MaxHistoryEntries == 4

\* calls of add_thought made on a tracker of its own
MaxThoughts == 4

\* calls of process_input in a behaviour
MaxInputs == 2

MaxLedgerEntries == 2

---------------------------------------------------------------------------
(* Python helpers. *)

\* Python's None
None == <<"None">>

\* dict.get(key, default)
Get(d, k, default) == IF k \in DOMAIN d THEN d[k] ELSE default

\* list.append(x)
Append1(s, x) == s \o <<x>>

\* The index of the first element of list s with s[i][key] = v, 0 if none:
\* the "for c in self.claims: if c[key] == v" scans.
FirstIndex(s, key, v) ==
    IF \E i \in 1..Len(s) : s[i][key] = v
    THEN CHOOSE i \in 1..Len(s) :
            /\ s[i][key] = v
            /\ \A j \in 1..(i - 1) : s[j][key] # v
    ELSE 0

RECURSIVE SumSeq(_)
\* sum(...) over a list of integers
SumSeq(s) == IF s = <<>> THEN 0 ELSE s[1] + SumSeq(Tail(s))

---------------------------------------------------------------------------
(* InsuranceReimbursementAgent *)

\* _load_insurance_providers: coverage in percent per CPT code
insurance_providers ==
    [ blue_cross |->
        [ name |-> "Blue Cross Blue Shield",
          coverage |-> [ c90791 |-> 80, c90832 |-> 70, c90834 |-> 70,
                         c90837 |-> 70, c90853 |-> 80, c96127 |-> 90 ],
          requires_preauth |-> <<"c90791">> ],
      aetna |->
        [ name |-> "Aetna",
          coverage |-> [ c90791 |-> 75, c90832 |-> 75, c90834 |-> 75,
                         c90837 |-> 75, c90853 |-> 85, c96127 |-> 85 ],
          requires_preauth |-> <<"c90791", "c90837">> ],
      united |->
        [ name |-> "UnitedHealthcare",
          coverage |-> [ c90791 |-> 70, c90832 |-> 70, c90834 |-> 70,
                         c90837 |-> 70, c90853 |-> 80, c96127 |-> 80 ],
          requires_preauth |-> <<>> ] ]

\* x in list
InList(x, s) == \E i \in 1..Len(s) : s[i] = x

\* verify_coverage asking for preauthorization whenever the provider has a
\* preauthorization list, whatever the service
verify_coverage_PreauthAny(insurance_id, provider_code, cpt_code) ==
    IF provider_code \notin DOMAIN insurance_providers
    THEN [ verified |-> FALSE,
           error |-> <<"Unknown insurance provider: ", provider_code>>,
           coverage_percentage |-> 0 ]
    ELSE LET provider == insurance_providers[provider_code] IN
         IF cpt_code \notin DOMAIN provider.coverage
         THEN [ verified |-> FALSE,
                error |-> <<"Service not covered: ", cpt_code>>,
                coverage_percentage |-> 0 ]
         ELSE LET coverage_percentage == provider.coverage[cpt_code] IN
              [ verified |-> TRUE,
                insurance_id |-> insurance_id,
                provider |-> provider.name,
                cpt_code |-> cpt_code,
                coverage_percentage |-> coverage_percentage,
                requires_preauthorization |-> provider.requires_preauth # <<>>,
                estimated_patient_responsibility |-> 100 - coverage_percentage ]

verify_coverage(insurance_id, provider_code, cpt_code) ==
    IF provider_code \notin DOMAIN insurance_providers
    THEN [ verified |-> FALSE,
           error |-> <<"Unknown insurance provider: ", provider_code>>,
           coverage_percentage |-> 0 ]
    ELSE LET provider == insurance_providers[provider_code] IN
         IF cpt_code \notin DOMAIN provider.coverage
         THEN [ verified |-> FALSE,
                error |-> <<"Service not covered: ", cpt_code>>,
                coverage_percentage |-> 0 ]
         ELSE LET coverage_percentage == provider.coverage[cpt_code] IN
              [ verified |-> TRUE,
                insurance_id |-> insurance_id,
                provider |-> provider.name,
                cpt_code |-> cpt_code,
                coverage_percentage |-> coverage_percentage,
                requires_preauthorization |->
                    InList(cpt_code, provider.requires_preauth),
                estimated_patient_responsibility |-> 100 - coverage_percentage ]

\* submit_claim storing the claim before the coverage verdict is looked at
submit_claim_StoreUnverified(cl, uuid, patient_info, provider_info, service_info, insurance_info) ==
    LET coverage == verify_coverage(Get(insurance_info, "insurance_id", ""),
                                    Get(insurance_info, "provider_code", ""),
                                    Get(service_info, "cpt_code", ""))
        claim_id == <<"CLM", uuid>>
        claim == [ claim_id |-> claim_id,
                   patient_info |-> patient_info,
                   provider_info |-> provider_info,
                   service_info |-> service_info,
                   insurance_info |-> insurance_info,
                   coverage_details |-> coverage,
                   status |-> "submitted",
                   status_history |->
                       << [ status |-> "submitted",
                            notes |-> <<"Initial claim submission">> ] >> ]
    IN  IF ~coverage.verified
        THEN [ claims |-> Append1(cl, claim),
               ret |-> [ success |-> FALSE,
                         error |-> Get(coverage, "error", "Coverage verification failed"),
                         claim_id |-> None ] ]
        ELSE [ claims |-> Append1(cl, claim),
               ret |-> [ success |-> TRUE,
                         claim_id |-> claim_id,
                         status |-> claim.status,
                         estimated_reimbursement |->
                             Get(service_info, "total_cost", 0)
                                 * coverage.coverage_percentage ] ]

\* submit_claim creating the claim with an empty status_history
submit_claim_EmptyHistory(cl, uuid, patient_info, provider_info, service_info, insurance_info) ==
    LET coverage == verify_coverage(Get(insurance_info, "insurance_id", ""),
                                    Get(insurance_info, "provider_code", ""),
                                    Get(service_info, "cpt_code", ""))
    IN  IF ~coverage.verified
        THEN [ claims |-> cl,
               ret |-> [ success |-> FALSE,
                         error |-> Get(coverage, "error", "Coverage verification failed"),
                         claim_id |-> None ] ]
        ELSE LET claim_id == <<"CLM", uuid>>
                 claim == [ claim_id |-> claim_id,
                            patient_info |-> patient_info,
                            provider_info |-> provider_info,
                            service_info |-> service_info,
                            insurance_info |-> insurance_info,
                            coverage_details |-> coverage,
                            status |-> "submitted",
                            status_history |-> <<>> ]
             IN  [ claims |-> Append1(cl, claim),
                   ret |-> [ success |-> TRUE,
                             claim_id |-> claim_id,
                             status |-> claim.status,
                             estimated_reimbursement |->
                                 Get(service_info, "total_cost", 0)
                                     * coverage.coverage_percentage ] ]

\* submit_claim on the claims list cl, uuid being the uuid4 drawn.
\* estimated_reimbursement is in cents * percent.
submit_claim(cl, uuid, patient_info, provider_info, service_info, insurance_info) ==
    LET coverage == verify_coverage(Get(insurance_info, "insurance_id", ""),
                                    Get(insurance_info, "provider_code", ""),
                                    Get(service_info, "cpt_code", ""))
    IN  IF ~coverage.verified
        THEN [ claims |-> cl,
               ret |-> [ success |-> FALSE,
                         error |-> Get(coverage, "error", "Coverage verification failed"),
                         claim_id |-> None ] ]
        ELSE LET claim_id == <<"CLM", uuid>>
                 claim == [ claim_id |-> claim_id,
                            patient_info |-> patient_info,
                            provider_info |-> provider_info,
                            service_info |-> service_info,
                            insurance_info |-> insurance_info,
                            coverage_details |-> coverage,
                            status |-> "submitted",
                            status_history |->
                                << [ status |-> "submitted",
                                     notes |-> <<"Initial claim submission">> ] >> ]
             IN  [ claims |-> Append1(cl, claim),
                   ret |-> [ success |-> TRUE,
                             claim_id |-> claim_id,
                             status |-> claim.status,
                             estimated_reimbursement |->
                                 Get(service_info, "total_cost", 0)
                                     * coverage.coverage_percentage ] ]

\* check_claim_status reporting the first status_history entry instead of the
\* status field
check_claim_status_FirstEntry(cl, claim_id) ==
    LET i == FirstIndex(cl, "claim_id", claim_id) IN
    IF i # 0
    THEN [ success |-> TRUE,
           claim_id |-> claim_id,
           status |-> cl[i].status_history[1].status,
           status_history |-> cl[i].status_history ]
    ELSE [ success |-> FALSE,
           error |-> <<"Claim not found: ", claim_id>> ]

check_claim_status(cl, claim_id) ==
    LET i == FirstIndex(cl, "claim_id", claim_id) IN
    IF i # 0
    THEN [ success |-> TRUE,
           claim_id |-> claim_id,
           status |-> cl[i].status,
           status_history |-> cl[i].status_history ]
    ELSE [ success |-> FALSE,
           error |-> <<"Claim not found: ", claim_id>> ]

\* the stage of a status in the nominal progression
StatusRank(st) ==
    CASE st = "submitted" -> 0
      [] st \in {"approved", "partially_approved"} -> 1
      [] st = "reimbursed" -> 2
      [] OTHER -> 3

\* update_claim_status refusing a transition to an earlier stage
update_claim_status_Validating(cl, claim_id, new_status, notes) ==
    LET i == FirstIndex(cl, "claim_id", claim_id) IN
    IF i # 0
    THEN IF StatusRank(new_status) < StatusRank(cl[i].status)
         THEN [ claims |-> cl,
                ret |-> [ success |-> FALSE,
                          error |-> <<"Illegal transition: ", new_status>> ] ]
         ELSE LET status_update == [ status |-> new_status, notes |-> notes ] IN
              [ claims |-> [ cl EXCEPT ![i].status = new_status,
                                       ![i].status_history =
                                           Append1(cl[i].status_history, status_update) ],
                ret |-> [ success |-> TRUE,
                          claim_id |-> claim_id,
                          status |-> new_status ] ]
    ELSE [ claims |-> cl,
           ret |-> [ success |-> FALSE,
                     error |-> <<"Claim not found: ", claim_id>> ] ]

\* update_claim_status taking the claim out of the list and putting the
\* updated claim at its end
update_claim_status_MoveToEnd(cl, claim_id, new_status, notes) ==
    LET i == FirstIndex(cl, "claim_id", claim_id) IN
    IF i # 0
    THEN LET status_update == [ status |-> new_status, notes |-> notes ]
             updated == [ cl[i] EXCEPT !.status = new_status,
                                       !.status_history =
                                           Append1(cl[i].status_history, status_update) ]
         IN
         [ claims |-> Append1(SubSeq(cl, 1, i - 1) \o SubSeq(cl, i + 1, Len(cl)),
                              updated),
           ret |-> [ success |-> TRUE,
                     claim_id |-> claim_id,
                     status |-> new_status ] ]
    ELSE [ claims |-> cl,
           ret |-> [ success |-> FALSE,
                     error |-> <<"Claim not found: ", claim_id>> ] ]

\* update_claim_status writing the update over the last entry of the
\* history, where the code appends it
update_claim_status_ReplaceLast(cl, claim_id, new_status, notes) ==
    LET i == FirstIndex(cl, "claim_id", claim_id) IN
    IF i # 0
    THEN LET status_update == [ status |-> new_status, notes |-> notes ]
             n == Len(cl[i].status_history)
         IN
         [ claims |-> [ cl EXCEPT ![i].status = new_status,
                                  ![i].status_history =
                                      [ cl[i].status_history EXCEPT ![n] = status_update ] ],
           ret |-> [ success |-> TRUE,
                     claim_id |-> claim_id,
                     status |-> new_status ] ]
    ELSE [ claims |-> cl,
           ret |-> [ success |-> FALSE,
                     error |-> <<"Claim not found: ", claim_id>> ] ]

update_claim_status(cl, claim_id, new_status, notes) ==
    LET i == FirstIndex(cl, "claim_id", claim_id) IN
    IF i # 0
    THEN LET status_update == [ status |-> new_status, notes |-> notes ] IN
         [ claims |-> [ cl EXCEPT ![i].status = new_status,
                                  ![i].status_history =
                                      Append1(cl[i].status_history, status_update) ],
           ret |-> [ success |-> TRUE,
                     claim_id |-> claim_id,
                     status |-> new_status ] ]
    ELSE [ claims |-> cl,
           ret |-> [ success |-> FALSE,
                     error |-> <<"Claim not found: ", claim_id>> ] ]

\* process_reimbursement without the check of the claim's status
process_reimbursement_NoStatusCheck(cl, re, uuid, claim_id, amount) ==
    LET i == FirstIndex(cl, "claim_id", claim_id) IN
    IF i = 0
    THEN [ claims |-> cl, reimbursements |-> re,
           ret |-> [ success |-> FALSE,
                     error |-> <<"Claim not found: ", claim_id>> ] ]
    ELSE LET reimbursement_id == <<"REIMB", uuid>>
             reimbursement == [ reimbursement_id |-> reimbursement_id,
                                claim_id |-> claim_id,
                                amount |-> amount,
                                patient_info |-> cl[i].patient_info,
                                insurance_info |-> cl[i].insurance_info,
                                service_info |-> cl[i].service_info ]
             upd == update_claim_status(cl, claim_id, "reimbursed",
                                        <<"Reimbursement processed: $", amount>>)
         IN  [ claims |-> upd.claims,
               reimbursements |-> Append1(re, reimbursement),
               ret |-> [ success |-> TRUE,
                         reimbursement_id |-> reimbursement_id,
                         claim_id |-> claim_id,
                         amount |-> amount ] ]

\* process_reimbursement that records the reimbursement and leaves the claim
\* as it was (no update_claim_status call)
process_reimbursement_NoStatusUpdate(cl, re, uuid, claim_id, amount) ==
    LET i == FirstIndex(cl, "claim_id", claim_id) IN
    IF i = 0
    THEN [ claims |-> cl, reimbursements |-> re,
           ret |-> [ success |-> FALSE,
                     error |-> <<"Claim not found: ", claim_id>> ] ]
    ELSE IF cl[i].status \notin {"approved", "partially_approved"}
    THEN [ claims |-> cl, reimbursements |-> re,
           ret |-> [ success |-> FALSE,
                     error |-> <<"Claim not in approved status: ", cl[i].status>> ] ]
    ELSE LET reimbursement_id == <<"REIMB", uuid>>
             reimbursement == [ reimbursement_id |-> reimbursement_id,
                                claim_id |-> claim_id,
                                amount |-> amount,
                                patient_info |-> cl[i].patient_info,
                                insurance_info |-> cl[i].insurance_info,
                                service_info |-> cl[i].service_info ]
         IN  [ claims |-> cl,
               reimbursements |-> Append1(re, reimbursement),
               ret |-> [ success |-> TRUE,
                         reimbursement_id |-> reimbursement_id,
                         claim_id |-> claim_id,
                         amount |-> amount ] ]

\* process_reimbursement accepting a claim that is already reimbursed
process_reimbursement_AllowsReimbursed(cl, re, uuid, claim_id, amount) ==
    LET i == FirstIndex(cl, "claim_id", claim_id) IN
    IF i = 0
    THEN [ claims |-> cl, reimbursements |-> re,
           ret |-> [ success |-> FALSE,
                     error |-> <<"Claim not found: ", claim_id>> ] ]
    ELSE IF cl[i].status \notin {"approved", "partially_approved", "reimbursed"}
    THEN [ claims |-> cl, reimbursements |-> re,
           ret |-> [ success |-> FALSE,
                     error |-> <<"Claim not in approved status: ", cl[i].status>> ] ]
    ELSE LET reimbursement_id == <<"REIMB", uuid>>
             reimbursement == [ reimbursement_id |-> reimbursement_id,
                                claim_id |-> claim_id,
                                amount |-> amount,
                                patient_info |-> cl[i].patient_info,
                                insurance_info |-> cl[i].insurance_info,
                                service_info |-> cl[i].service_info ]
             upd == update_claim_status(cl, claim_id, "reimbursed",
                                        <<"Reimbursement processed: $", amount>>)
         IN  [ claims |-> upd.claims,
               reimbursements |-> Append1(re, reimbursement),
               ret |-> [ success |-> TRUE,
                         reimbursement_id |-> reimbursement_id,
                         claim_id |-> claim_id,
                         amount |-> amount ] ]

\* process_reimbursement storing the reimbursement record before it looks
\* for the claim
process_reimbursement_RecordsFirst(cl, re, uuid, claim_id, amount) ==
    LET i == FirstIndex(cl, "claim_id", claim_id)
        reimbursement_id == <<"REIMB", uuid>>
    IN
    IF i = 0
    THEN [ claims |-> cl,
           reimbursements |->
               Append1(re, [ reimbursement_id |-> reimbursement_id,
                             claim_id |-> claim_id,
                             amount |-> amount ]),
           ret |-> [ success |-> FALSE,
                     error |-> <<"Claim not found: ", claim_id>> ] ]
    ELSE IF cl[i].status \notin {"approved", "partially_approved"}
    THEN [ claims |-> cl, reimbursements |-> re,
           ret |-> [ success |-> FALSE,
                     error |-> <<"Claim not in approved status: ", cl[i].status>> ] ]
    ELSE LET reimbursement == [ reimbursement_id |-> reimbursement_id,
                                claim_id |-> claim_id,
                                amount |-> amount,
                                patient_info |-> cl[i].patient_info,
                                insurance_info |-> cl[i].insurance_info,
                                service_info |-> cl[i].service_info ]
             upd == update_claim_status(cl, claim_id, "reimbursed",
                                        <<"Reimbursement processed: $", amount>>)
         IN  [ claims |-> upd.claims,
               reimbursements |-> Append1(re, reimbursement),
               ret |-> [ success |-> TRUE,
                         reimbursement_id |-> reimbursement_id,
                         claim_id |-> claim_id,
                         amount |-> amount ] ]

process_reimbursement(cl, re, uuid, claim_id, amount) ==
    LET i == FirstIndex(cl, "claim_id", claim_id) IN
    IF i = 0
    THEN [ claims |-> cl, reimbursements |-> re,
           ret |-> [ success |-> FALSE,
                     error |-> <<"Claim not found: ", claim_id>> ] ]
    ELSE IF cl[i].status \notin {"approved", "partially_approved"}
    THEN [ claims |-> cl, reimbursements |-> re,
           ret |-> [ success |-> FALSE,
                     error |-> <<"Claim not in approved status: ", cl[i].status>> ] ]
    ELSE LET reimbursement_id == <<"REIMB", uuid>>
             reimbursement == [ reimbursement_id |-> reimbursement_id,
                                claim_id |-> claim_id,
                                amount |-> amount,
                                patient_info |-> cl[i].patient_info,
                                insurance_info |-> cl[i].insurance_info,
                                service_info |-> cl[i].service_info ]
             upd == update_claim_status(cl, claim_id, "reimbursed",
                                        <<"Reimbursement processed: $", amount>>)
         IN  [ claims |-> upd.claims,
               reimbursements |-> Append1(re, reimbursement),
               ret |-> [ success |-> TRUE,
                         reimbursement_id |-> reimbursement_id,
                         claim_id |-> claim_id,
                         amount |-> amount ] ]

---------------------------------------------------------------------------
(* Inputs of the insurance operations. *)

PatientInfos == { [ patient_id |-> "PT12345", name |-> "Jane Doe" ] }

ProviderInfos == { [ provider_id |-> "PROV789", name |-> "Dr. Smith" ] }

ServiceInfos ==
    { [ cpt_code |-> "c90837", total_cost |-> 13000 ],
      [ cpt_code |-> "c99999", total_cost |-> 13000 ],
      [ total_cost |-> 13000 ] }

InsuranceInfos ==
    { [ insurance_id |-> "INS987654321", provider_code |-> "blue_cross" ],
      [ insurance_id |-> "INS987654321", provider_code |-> "acme" ],
      [ insurance_id |-> "INS987654321" ] }

\* the arguments of verify_coverage: the three providers, an unknown one and
\* the empty string; the six covered codes, an uncovered one and the empty
\* string
InsuranceIdInputs == {"INS98765"}

ProviderCodeInputs == {"blue_cross", "aetna", "united", "acme", ""}

CoverageCptInputs ==
    {"c90791", "c90832", "c90834", "c90837", "c90853", "c96127", "c99999", ""}

\* the uuid4 values a claim id is drawn from (each one is issued once)
ClaimUuids == {1, 2, 3}

\* the claim ids the callers ask about: the ones that can be issued and one
\* that never is
ClaimIds == { <<"CLM", n>> : n \in ClaimUuids \cup {0} }

Statuses == {"submitted", "approved", "partially_approved", "reimbursed", "denied"}

Amounts == {6800, 9100}

UsedClaimUuids == { claims[i].claim_id[2] : i \in 1..Len(claims) }

\* the uuid4 of the next reimbursement id: no operation reads a reimbursement
\* id, so the draw is represented by the first number not issued yet
NextReimbursementUuid == Len(reimbursements) + 1

\* the number of status_history entries of the whole ledger
HistoryEntries == SumSeq([ i \in 1..Len(claims) |-> Len(claims[i].status_history) ])

---------------------------------------------------------------------------
(* BillingAgent *)

\* _load_cpt_codes: rate in cents
cpt_codes ==
    [ c90791 |-> [ description |-> "Psychiatric diagnostic evaluation",
                   rate |-> 15000, duration_minutes |-> 50 ],
      c90832 |-> [ description |-> "Psychotherapy, 30 minutes",
                   rate |-> 6500, duration_minutes |-> 30 ],
      c90834 |-> [ description |-> "Psychotherapy, 45 minutes",
                   rate |-> 8500, duration_minutes |-> 45 ],
      c90837 |-> [ description |-> "Psychotherapy, 60 minutes",
                   rate |-> 13000, duration_minutes |-> 60 ],
      c90853 |-> [ description |-> "Group psychotherapy",
                   rate |-> 5000, duration_minutes |-> 90 ],
      c96127 |-> [ description |-> "Brief emotional/behavioral assessment",
                   rate |-> 2500, duration_minutes |-> 15 ] ]

\* BillingAgent.payment_methods
payment_methods == <<"credit_card", "debit_card", "insurance", "bank_transfer">>

\* the truth value of an Optional[List]: None and [] are false
Truthy(l) == l # None /\ l # <<>>

\* returns the pair (is_valid, details); {} is the empty record
verify_cpt_code(code) ==
    IF code \in DOMAIN cpt_codes
    THEN <<TRUE, cpt_codes[code]>>
    ELSE <<FALSE, <<>>>>

\* calculate_service_cost whose error record carries no total_cost
calculate_service_cost_NoTotal(cpt_code, units, modifiers) ==
    LET v == verify_cpt_code(cpt_code)
        is_valid == v[1]
        code_details == v[2]
    IN  IF ~is_valid
        THEN [ success |-> FALSE,
               error |-> <<"Invalid CPT code: ", cpt_code>> ]
        ELSE LET base_rate == code_details.rate
                 cost0 == base_rate * units
                 cost1 == IF Truthy(modifiers) /\ InList("22", modifiers)
                          THEN (cost0 * 3) \div 2 ELSE cost0
                 cost2 == IF Truthy(modifiers) /\ InList("52", modifiers)
                          THEN cost1 \div 2 ELSE cost1
             IN  [ success |-> TRUE,
                   service |-> code_details.description,
                   base_rate |-> base_rate,
                   units |-> units,
                   modifiers |-> IF Truthy(modifiers) THEN modifiers ELSE <<>>,
                   total_cost |-> cost2,
                   duration_minutes |-> code_details.duration_minutes * units ]

\* calculate_service_cost with "elif" for modifier 52: the reduction is
\* skipped when modifier 22 is present
calculate_service_cost_ElseIf(cpt_code, units, modifiers) ==
    LET v == verify_cpt_code(cpt_code)
        is_valid == v[1]
        code_details == v[2]
    IN  IF ~is_valid
        THEN [ success |-> FALSE,
               error |-> <<"Invalid CPT code: ", cpt_code>>,
               total_cost |-> 0 ]
        ELSE LET base_rate == code_details.rate
                 cost0 == base_rate * units
                 cost2 == IF Truthy(modifiers) /\ InList("22", modifiers)
                          THEN (cost0 * 3) \div 2
                          ELSE IF Truthy(modifiers) /\ InList("52", modifiers)
                          THEN cost0 \div 2 ELSE cost0
             IN  [ success |-> TRUE,
                   service |-> code_details.description,
                   base_rate |-> base_rate,
                   units |-> units,
                   modifiers |-> IF Truthy(modifiers) THEN modifiers ELSE <<>>,
                   total_cost |-> cost2,
                   duration_minutes |-> code_details.duration_minutes * units ]

\* total_cost *= 1.5 and total_cost *= 0.5 on cents: every rate is a whole
\* number of dollars, so the products by 3/2 and then 1/2 are whole cents
calculate_service_cost(cpt_code, units, modifiers) ==
    LET v == verify_cpt_code(cpt_code)
        is_valid == v[1]
        code_details == v[2]
    IN  IF ~is_valid
        THEN [ success |-> FALSE,
               error |-> <<"Invalid CPT code: ", cpt_code>>,
               total_cost |-> 0 ]
        ELSE LET base_rate == code_details.rate
                 cost0 == base_rate * units
                 cost1 == IF Truthy(modifiers) /\ InList("22", modifiers)
                          THEN (cost0 * 3) \div 2 ELSE cost0
                 cost2 == IF Truthy(modifiers) /\ InList("52", modifiers)
                          THEN cost1 \div 2 ELSE cost1
             IN  [ success |-> TRUE,
                   service |-> code_details.description,
                   base_rate |-> base_rate,
                   units |-> units,
                   modifiers |-> IF Truthy(modifiers) THEN modifiers ELSE <<>>,
                   total_cost |-> cost2,
                   duration_minutes |-> code_details.duration_minutes * units ]

\* process_payment without the check of the payment method
process_payment_AnyMethod(txns, patient_id, amount, payment_method, service_details) ==
    LET transaction_id == <<"TXN", Len(txns) + 1>>
        transaction == [ transaction_id |-> transaction_id,
                         patient_id |-> patient_id,
                         amount |-> amount,
                         payment_method |-> payment_method,
                         service_details |-> service_details,
                         status |-> "completed" ]
    IN  [ transactions |-> Append1(txns, transaction),
          ret |-> [ success |-> TRUE,
                    transaction_id |-> transaction_id,
                    amount |-> amount ] ]

\* process_payment numbering the transactions from 0, len(self.transactions)
\* for len(self.transactions) + 1
process_payment_NumberFromZero(txns, patient_id, amount, payment_method, service_details) ==
    IF ~InList(payment_method, payment_methods)
    THEN [ transactions |-> txns,
           ret |-> [ success |-> FALSE,
                     error |-> <<"Invalid payment method: ", payment_method>>,
                     transaction_id |-> None ] ]
    ELSE LET transaction_id == <<"TXN", Len(txns)>>
             transaction == [ transaction_id |-> transaction_id,
                              patient_id |-> patient_id,
                              amount |-> amount,
                              payment_method |-> payment_method,
                              service_details |-> service_details,
                              status |-> "completed" ]
         IN  [ transactions |-> Append1(txns, transaction),
               ret |-> [ success |-> TRUE,
                         transaction_id |-> transaction_id,
                         amount |-> amount ] ]

\* process_payment recording the cost of the service in place of the amount paid
process_payment_ServiceCost(txns, patient_id, amount, payment_method, service_details) ==
    IF ~InList(payment_method, payment_methods)
    THEN [ transactions |-> txns,
           ret |-> [ success |-> FALSE,
                     error |-> <<"Invalid payment method: ", payment_method>>,
                     transaction_id |-> None ] ]
    ELSE LET transaction_id == <<"TXN", Len(txns) + 1>>
             transaction == [ transaction_id |-> transaction_id,
                              patient_id |-> patient_id,
                              amount |-> Get(service_details, "total_cost", 0),
                              payment_method |-> payment_method,
                              service_details |-> service_details,
                              status |-> "completed" ]
         IN  [ transactions |-> Append1(txns, transaction),
               ret |-> [ success |-> TRUE,
                         transaction_id |-> transaction_id,
                         amount |-> amount ] ]

\* <<"TXN", n>> stands for f"TXN-{n}-{timestamp}"
process_payment(txns, patient_id, amount, payment_method, service_details) ==
    IF ~InList(payment_method, payment_methods)
    THEN [ transactions |-> txns,
           ret |-> [ success |-> FALSE,
                     error |-> <<"Invalid payment method: ", payment_method>>,
                     transaction_id |-> None ] ]
    ELSE LET transaction_id == <<"TXN", Len(txns) + 1>>
             transaction == [ transaction_id |-> transaction_id,
                              patient_id |-> patient_id,
                              amount |-> amount,
                              payment_method |-> payment_method,
                              service_details |-> service_details,
                              status |-> "completed" ]
         IN  [ transactions |-> Append1(txns, transaction),
               ret |-> [ success |-> TRUE,
                         transaction_id |-> transaction_id,
                         amount |-> amount ] ]

\* generate_invoice totalling the base rates of the services
generate_invoice_BaseRate(invs, patient_id, services, payment_status) ==
    LET total_amount ==
            SumSeq([ i \in 1..Len(services) |-> Get(services[i], "base_rate", 0) ])
        invoice_id == <<"INV", Len(invs) + 1>>
        invoice == [ invoice_id |-> invoice_id,
                     patient_id |-> patient_id,
                     services |-> services,
                     total_amount |-> total_amount,
                     payment_status |-> payment_status ]
    IN  [ invoices |-> Append1(invs, invoice), ret |-> invoice ]

\* <<"INV", n>> stands for f"INV-{n}-{date}"; the invoice is the return value
generate_invoice(invs, patient_id, services, payment_status) ==
    LET total_amount ==
            SumSeq([ i \in 1..Len(services) |-> Get(services[i], "total_cost", 0) ])
        invoice_id == <<"INV", Len(invs) + 1>>
        invoice == [ invoice_id |-> invoice_id,
                     patient_id |-> patient_id,
                     services |-> services,
                     total_amount |-> total_amount,
                     payment_status |-> payment_status ]
    IN  [ invoices |-> Append1(invs, invoice), ret |-> invoice ]

\* get_patient_billing_history counting every invoice of the patient as
\* outstanding, whatever its payment_status
get_patient_billing_history_AllInvoices(txns, invs, patient_id) ==
    LET OfPatient(r) == r.patient_id = patient_id
        ts == SelectSeq(txns, OfPatient)
        is == SelectSeq(invs, OfPatient)
    IN  [ patient_id |-> patient_id,
          transactions |-> ts,
          invoices |-> is,
          total_paid |-> SumSeq([ k \in 1..Len(ts) |-> ts[k].amount ]),
          outstanding_balance |->
              SumSeq([ k \in 1..Len(is) |-> is[k].total_amount ]) ]

\* get_patient_billing_history taking the payments off the unpaid invoices
get_patient_billing_history_NetOfPayments(txns, invs, patient_id) ==
    LET OfPatient(r) == r.patient_id = patient_id
        Unpaid(i) == i.payment_status = "unpaid"
        ts == SelectSeq(txns, OfPatient)
        is == SelectSeq(invs, OfPatient)
        unpaid == SelectSeq(is, Unpaid)
        total_paid == SumSeq([ k \in 1..Len(ts) |-> ts[k].amount ])
    IN  [ patient_id |-> patient_id,
          transactions |-> ts,
          invoices |-> is,
          total_paid |-> total_paid,
          outstanding_balance |->
              SumSeq([ k \in 1..Len(unpaid) |-> unpaid[k].total_amount ])
                  - total_paid ]

get_patient_billing_history(txns, invs, patient_id) ==
    LET OfPatient(r) == r.patient_id = patient_id
        Unpaid(i) == i.payment_status = "unpaid"
        ts == SelectSeq(txns, OfPatient)
        is == SelectSeq(invs, OfPatient)
        unpaid == SelectSeq(is, Unpaid)
    IN  [ patient_id |-> patient_id,
          transactions |-> ts,
          invoices |-> is,
          total_paid |-> SumSeq([ k \in 1..Len(ts) |-> ts[k].amount ]),
          outstanding_balance |->
              SumSeq([ k \in 1..Len(unpaid) |-> unpaid[k].total_amount ]) ]

---------------------------------------------------------------------------
(* Inputs of the billing operations. *)

PatientIds == {"PT12345", "PT67890"}

CptInputs == {"c90837", "c96127", "c99999"}

UnitInputs == {1, 2}

ModifierInputs == { None, <<>>, <<"22">>, <<"52">>, <<"22", "52">>, <<"52", "22">> }

PaymentAmounts == {13000, 2500}

PaymentMethodInputs == {"credit_card", "insurance", "cash"}

ServiceDetailInputs == { calculate_service_cost("c90837", 1, None) }

\* the services lists invoiced: costed services, a failed cost calculation
\* (total_cost 0) and a service without the total_cost key
ServiceListInputs ==
    { <<>>,
      << calculate_service_cost("c90791", 1, None) >>,
      << calculate_service_cost("c90837", 1, None),
         calculate_service_cost("c99999", 1, None) >>,
      << [ service |-> "Intake paperwork" ],
         calculate_service_cost("c96127", 2, None) >> }

PaymentStatusInputs == {"unpaid", "paid"}

LedgerEntries == Len(transactions) + Len(invoices)

---------------------------------------------------------------------------
(* Strings of the EneHealths assistant (standalone_ene_health_agent.py).   *)
(* The texts are ASCII: str.lower() and str.title() act on the 26 letters. *)

LowerOf ==
    "A" :> "a" @@ "B" :> "b" @@ "C" :> "c" @@ "D" :> "d" @@ "E" :> "e" @@
    "F" :> "f" @@ "G" :> "g" @@ "H" :> "h" @@ "I" :> "i" @@ "J" :> "j" @@
    "K" :> "k" @@ "L" :> "l" @@ "M" :> "m" @@ "N" :> "n" @@ "O" :> "o" @@
    "P" :> "p" @@ "Q" :> "q" @@ "R" :> "r" @@ "S" :> "s" @@ "T" :> "t" @@
    "U" :> "u" @@ "V" :> "v" @@ "W" :> "w" @@ "X" :> "x" @@ "Y" :> "y" @@
    "Z" :> "z"

UpperOf ==
    "a" :> "A" @@ "b" :> "B" @@ "c" :> "C" @@ "d" :> "D" @@ "e" :> "E" @@
    "f" :> "F" @@ "g" :> "G" @@ "h" :> "H" @@ "i" :> "I" @@ "j" :> "J" @@
    "k" :> "K" @@ "l" :> "L" @@ "m" :> "M" @@ "n" :> "N" @@ "o" :> "O" @@
    "p" :> "P" @@ "q" :> "Q" @@ "r" :> "R" @@ "s" :> "S" @@ "t" :> "T" @@
    "u" :> "U" @@ "v" :> "V" @@ "w" :> "W" @@ "x" :> "X" @@ "y" :> "Y" @@
    "z" :> "Z"

\* str.lower()
lower(text) ==
    [ i \in 1..Len(text) |->
        IF text[i] \in DOMAIN LowerOf THEN LowerOf[text[i]] ELSE text[i] ]

IsLetter(c) == c \in DOMAIN LowerOf \/ c \in DOMAIN UpperOf

\* str.title(): a letter that follows no letter is put in upper case, every
\* other letter in lower case
title(text) ==
    [ i \in 1..Len(text) |->
        IF i = 1 \/ ~IsLetter(text[i - 1])
        THEN IF text[i] \in DOMAIN UpperOf THEN UpperOf[text[i]] ELSE text[i]
        ELSE IF text[i] \in DOMAIN LowerOf THEN LowerOf[text[i]] ELSE text[i] ]

\* str.replace(old, new) for one-character old and new
replace(text, old, new) ==
    [ i \in 1..Len(text) |-> IF text[i] = old THEN new ELSE text[i] ]

\* Python's "phrase in text" on strings: phrase occurs at some position
Contains(text, phrase) ==
    \E i \in 0..(Len(text) - Len(phrase)) :
        SubSeq(text, i + 1, i + Len(phrase)) = phrase

\* str.split(sep) for a one-character sep: the pieces between the separators
RECURSIVE split(_, _)
split(text, sep) ==
    IF \A i \in 1..Len(text) : text[i] # sep
    THEN << text >>
    ELSE LET k == CHOOSE i \in 1..Len(text) :
                      /\ text[i] = sep
                      /\ \A j \in 1..(i - 1) : text[j] # sep
         IN  << SubSeq(text, 1, k - 1) >> \o split(SubSeq(text, k + 1, Len(text)), sep)

\* the position of the first phrase of the list that occurs in the text, 0
\* when none does: "for phrase in phrases: if phrase in text: ..."
FirstMatch(phrases, text) ==
    IF \E i \in 1..Len(phrases) : Contains(text, phrases[i])
    THEN CHOOSE i \in 1..Len(phrases) :
             /\ Contains(text, phrases[i])
             /\ \A j \in 1..(i - 1) : ~Contains(text, phrases[j])
    ELSE 0

\* the concatenation of the strings of a list, in order
RECURSIVE Join(_)
Join(parts) ==
    IF parts = <<>> THEN <<>> ELSE Head(parts) \o Join(Tail(parts))

---------------------------------------------------------------------------
(* SimpleHallucinationDetector and SimpleThoughtTracker. *)

medical_claims ==
    << <<"c","u","r","e">>,
       <<"g","u","a","r","a","n","t","e","e","d">>,
       <<"a","l","w","a","y","s"," ","w","o","r","k","s">>,
       <<"1","0","0","%"," ","e","f","f","e","c","t","i","v","e">>,
       <<"m","i","r","a","c","l","e">>,
       <<"i","n","s","t","a","n","t"," ","r","e","l","i","e","f">>,
       <<"p","e","r","m","a","n","e","n","t"," ","s","o","l","u","t","i",
         "o","n">> >>

\* check_hallucination searching the text as given, not lower-cased
check_hallucination_CaseSensitive(text) ==
    LET i == FirstMatch(medical_claims, text)
    IN  IF i # 0
        THEN [ is_hallucination |-> TRUE,
               explanation |->
                   <<"The statement contains potentially misleading medical claims like '">>
                   \o medical_claims[i]
                   \o <<"'. Mental health treatments vary in effectiveness for different individuals.">> ]
        ELSE [ is_hallucination |-> FALSE,
               explanation |-> <<"No potential hallucinations detected.">> ]

check_hallucination(text) ==
    LET t == lower(text)
        i == FirstMatch(medical_claims, t)
    IN  IF i # 0
        THEN [ is_hallucination |-> TRUE,
               explanation |->
                   <<"The statement contains potentially misleading medical claims like '">>
                   \o medical_claims[i]
                   \o <<"'. Mental health treatments vary in effectiveness for different individuals.">> ]
        ELSE [ is_hallucination |-> FALSE,
               explanation |-> <<"No potential hallucinations detected.">> ]

\* add_thought dropping the newest entry, pop() for pop(0)
add_thought_DropNewest(ts, thought, max_history) ==
    LET appended == Append(ts, thought)
    IN  IF Len(appended) > max_history
        THEN SubSeq(appended, 1, Len(appended) - 1)
        ELSE appended

\* the history after add_thought(thought) on a tracker built with max_history
add_thought(ts, thought, max_history) ==
    LET appended == Append(ts, thought)
    IN  IF Len(appended) > max_history THEN Tail(appended) ELSE appended

---------------------------------------------------------------------------
(* EneHealthsAgent: configuration, knowledge base and handlers. *)

thought_history_size == 15

sensitive_topics ==
    << <<"s","u","i","c","i","d","e">>,
       <<"s","e","l","f","-","h","a","r","m">>,
       <<"a","b","u","s","e">>,
       <<"t","r","a","u","m","a">>,
       <<"e","a","t","i","n","g"," ","d","i","s","o","r","d","e","r","s">>,
       <<"a","d","d","i","c","t","i","o","n">>,
       <<"c","r","i","s","i","s">> >>

crisis_keywords ==
    << <<"k","i","l","l"," ","m","y","s","e","l","f">>,
       <<"e","n","d"," ","m","y"," ","l","i","f","e">>,
       <<"s","u","i","c","i","d","e">>,
       <<"h","u","r","t"," ","m","y","s","e","l","f">>,
       <<"s","e","l","f","-","h","a","r","m">>,
       <<"d","i","e">>,
       <<"d","o","n","'","t"," ","w","a","n","t"," ","t","o"," ","l","i",
         "v","e">>,
       <<"e","m","e","r","g","e","n","c","y">> >>

\* a dict is iterated in the order its keys were inserted
support_resources ==
    << [ name |-> "crisis",
         info |-> <<"988 Suicide & Crisis Lifeline (call or text 988)">> ],
       [ name |-> "text",
         info |-> <<"Text HOME to 741741 to reach Crisis Text Line">> ],
       [ name |-> "veterans",
         info |-> <<"Veterans Crisis Line: 1-800-273-8255 and Press 1">> ],
       [ name |-> "general",
         info |-> <<"SAMHSA's National Helpline: 1-800-662-HELP (4357)">> ] >>

organization ==
    [ name |-> <<"EneHealths">>,
      website |-> <<"https://enehealths.org">>,
      mission |-> <<"To provide accessible mental health resources and support to all individuals.">>,
      vision |-> <<"A world where mental health care is accessible, stigma-free, and integrated into everyday life.">> ]

mental_health_topics ==
    << <<"a","n","x","i","e","t","y">>,
       <<"d","e","p","r","e","s","s","i","o","n">>,
       <<"s","t","r","e","s","s"," ","m","a","n","a","g","e","m","e","n","t">>,
       <<"t","r","a","u","m","a">>,
       <<"s","e","l","f","-","c","a","r","e">>,
       <<"m","i","n","d","f","u","l","n","e","s","s">>,
       <<"t","h","e","r","a","p","y"," ","o","p","t","i","o","n","s">>,
       <<"m","e","d","i","c","a","t","i","o","n">>,
       <<"c","r","i","s","i","s"," ","s","u","p","p","o","r","t">>,
       <<"s","u","p","p","o","r","t"," ","g","r","o","u","p","s">>,
       <<"w","e","l","l","n","e","s","s">>,
       <<"r","e","s","i","l","i","e","n","c","e">> >>

\* knowledge_base['services']
knowledge_base_services ==
    << [ service |-> <<"c","o","u","n","s","e","l","i","n","g">>,
         description |-> <<"Individual and group counseling services">> ],
       [ service |-> <<"a","s","s","e","s","s","m","e","n","t">>,
         description |-> <<"Mental health assessments and screening">> ],
       [ service |-> <<"r","e","f","e","r","r","a","l","s">>,
         description |-> <<"Referrals to specialized mental health providers">> ],
       [ service |-> <<"e","d","u","c","a","t","i","o","n">>,
         description |-> <<"Mental health education and workshops">> ],
       [ service |-> <<"s","u","p","p","o","r","t","_","g","r","o","u","p",
                       "s">>,
         description |-> <<"Peer support groups for various mental health concerns">> ],
       [ service |-> <<"c","r","i","s","i","s","_","i","n","t","e","r","v",
                       "e","n","t","i","o","n">>,
         description |-> <<"Crisis intervention and support">> ] >>

faqs ==
    << [ question |-> <<"w","h","a","t","_","i","s","_","t","h","e","r","a",
                        "p","y">>,
         answer |-> <<"Therapy is a collaborative treatment based on the relationship between an individual and a mental health professional.">> ],
       [ question |-> <<"h","o","w","_","t","o","_","f","i","n","d","_","t",
                        "h","e","r","a","p","i","s","t">>,
         answer |-> <<"You can find a therapist through your insurance provider, referrals from healthcare providers, or community mental health centers.">> ],
       [ question |-> <<"t","h","e","r","a","p","y","_","c","o","s","t">>,
         answer |-> <<"The cost of therapy varies based on location, therapist credentials, and insurance coverage.">> ],
       [ question |-> <<"c","r","i","s","i","s","_","h","e","l","p">>,
         answer |-> <<"If you're experiencing a mental health crisis, contact emergency services (911) or call the 988 Suicide & Crisis Lifeline.">> ] >>

_is_crisis_situation(text) == FirstMatch(crisis_keywords, lower(text)) # 0

_contains_sensitive_topic(text) == FirstMatch(sensitive_topics, lower(text)) # 0

\* _handle_crisis_situation listing the first support resource only
_handle_crisis_situation_FirstResource ==
    <<"I notice you may be experiencing a crisis. Your well-being is important, and immediate support is available.\n\n">>
    \o <<"Please consider these resources:\n">>
    \o <<"- ">> \o support_resources[1].info \o <<"\n">>
    \o <<"\nIf you're in immediate danger, please call emergency services (911) or go to your nearest emergency room.">>

_handle_crisis_situation ==
    <<"I notice you may be experiencing a crisis. Your well-being is important, and immediate support is available.\n\n">>
    \o <<"Please consider these resources:\n">>
    \o Join([ i \in 1..Len(support_resources) |->
                <<"- ">> \o support_resources[i].info \o <<"\n">> ])
    \o <<"\nIf you're in immediate danger, please call emergency services (911) or go to your nearest emergency room.">>

\* _handle_sensitive_topic looking for the topic in the input as given, not
\* lower-cased
_handle_sensitive_topic_CaseSensitive(user_input) ==
    LET i == FirstMatch(sensitive_topics, user_input)
        topic == IF i # 0 THEN sensitive_topics[i] ELSE None
    IN  <<"I understand you're asking about ">> \o topic
        \o <<", which is an important mental health concern. ">>
        \o <<"I want to provide helpful information while acknowledging that everyone's experience is unique.\n\n">>
        \o <<"EneHealths offers resources and support for individuals dealing with this issue. ">>
        \o <<"Speaking with a mental health professional can provide personalized support.">>

\* topic stays None when no topic of the list occurs, and the f-string then
\* prints it as "None"
_handle_sensitive_topic(user_input) ==
    LET i == FirstMatch(sensitive_topics, lower(user_input))
        topic == IF i # 0 THEN sensitive_topics[i] ELSE None
    IN  <<"I understand you're asking about ">> \o topic
        \o <<", which is an important mental health concern. ">>
        \o <<"I want to provide helpful information while acknowledging that everyone's experience is unique.\n\n">>
        \o <<"EneHealths offers resources and support for individuals dealing with this issue. ">>
        \o <<"Speaking with a mental health professional can provide personalized support.">>

_handle_hallucination(hallucination_check) ==
    <<"I want to make sure I provide accurate information. ">>
    \o hallucination_check.explanation \o <<" ">>
    \o <<"I can help you find reliable information about mental health topics from EneHealths.">>

_get_about_response ==
    LET org == organization
    IN  org.name \o <<" is a mental health organization dedicated to ">>
        \o org.mission \o <<"\n\n">>
        \o <<"Our vision is ">> \o org.vision \o <<"\n\n">>
        \o <<"You can learn more at ">> \o org.website

_get_services_response ==
    <<"EneHealths offers the following mental health services:\n\n">>
    \o Join([ i \in 1..Len(knowledge_base_services) |->
                <<"- ">> \o title(replace(knowledge_base_services[i].service, "_", " "))
                \o <<": ">> \o knowledge_base_services[i].description \o <<"\n">> ])

_get_topic_info(topic) ==
    <<"Information about ">> \o topic \o <<":\n\n">>
    \o IF topic = mental_health_topics[1]
       THEN <<"Anxiety is a normal emotion that can cause feelings of worry, fear, or tension. When these feelings become excessive, it may be an anxiety disorder. Treatment options include therapy, medication, and self-care practices.">>
       ELSE IF topic = mental_health_topics[2]
       THEN <<"Depression is a common but serious mood disorder that causes persistent feelings of sadness and loss of interest. Treatment typically includes therapy, medication, or a combination of both.">>
       ELSE IF topic = mental_health_topics[3]
       THEN <<"Stress management encompasses techniques to cope with and reduce stress. Effective strategies include regular exercise, relaxation techniques, maintaining social connections, and practicing self-care.">>
       ELSE <<"EneHealths provides resources, education, and support for individuals dealing with ">>
            \o topic \o <<".">>

about_keywords ==
    << <<"w","h","o"," ","a","r","e"," ","y","o","u">>,
       <<"a","b","o","u","t"," ","e","n","e","h","e","a","l","t","h","s">>,
       <<"w","h","a","t"," ","i","s"," ","e","n","e","h","e","a","l","t",
         "h","s">> >>

services_keywords ==
    << <<"s","e","r","v","i","c","e","s">>,
       <<"h","e","l","p">>,
       <<"s","u","p","p","o","r","t">>,
       <<"o","f","f","e","r">> >>

default_response ==
    <<"I'm here to provide information about mental health and EneHealths services. How can I assist you today?">>

\* all(keyword in user_input for keyword in question.split('_'))
FaqMatches(question, text) ==
    LET keywords == split(question, "_")
    IN  \A k \in 1..Len(keywords) : Contains(text, keywords[k])

\* _generate_response looking for the services keywords before the questions
\* about EneHealths
_generate_response_ServicesFirst(user_input) ==
    LET text == lower(user_input)
        topic == FirstMatch(mental_health_topics, text)
    IN  IF FirstMatch(services_keywords, text) # 0
        THEN _get_services_response
        ELSE IF FirstMatch(about_keywords, text) # 0
        THEN _get_about_response
        ELSE IF topic # 0
        THEN _get_topic_info(mental_health_topics[topic])
        ELSE IF \E q \in 1..Len(faqs) : FaqMatches(faqs[q].question, text)
        THEN LET q == CHOOSE q \in 1..Len(faqs) :
                          /\ FaqMatches(faqs[q].question, text)
                          /\ \A p \in 1..(q - 1) : ~FaqMatches(faqs[p].question, text)
             IN  faqs[q].answer
        ELSE default_response

\* _generate_response looking for the mental health topics before the
\* services keywords
_generate_response_TopicsFirst(user_input) ==
    LET text == lower(user_input)
        topic == FirstMatch(mental_health_topics, text)
    IN  IF FirstMatch(about_keywords, text) # 0
        THEN _get_about_response
        ELSE IF topic # 0
        THEN _get_topic_info(mental_health_topics[topic])
        ELSE IF FirstMatch(services_keywords, text) # 0
        THEN _get_services_response
        ELSE IF \E q \in 1..Len(faqs) : FaqMatches(faqs[q].question, text)
        THEN LET q == CHOOSE q \in 1..Len(faqs) :
                          /\ FaqMatches(faqs[q].question, text)
                          /\ \A p \in 1..(q - 1) : ~FaqMatches(faqs[p].question, text)
             IN  faqs[q].answer
        ELSE default_response

_generate_response(user_input) ==
    LET text == lower(user_input)
        topic == FirstMatch(mental_health_topics, text)
    IN  IF FirstMatch(about_keywords, text) # 0
        THEN _get_about_response
        ELSE IF FirstMatch(services_keywords, text) # 0
        THEN _get_services_response
        ELSE IF topic # 0
        THEN _get_topic_info(mental_health_topics[topic])
        ELSE IF \E q \in 1..Len(faqs) : FaqMatches(faqs[q].question, text)
        THEN LET q == CHOOSE q \in 1..Len(faqs) :
                          /\ FaqMatches(faqs[q].question, text)
                          /\ \A p \in 1..(q - 1) : ~FaqMatches(faqs[p].question, text)
             IN  faqs[q].answer
        ELSE default_response

\* process_input looking for a sensitive topic before the crisis keywords
process_input_SensitiveFirst(ts, user_input) ==
    LET t1 == add_thought(ts, <<"Received input: ">> \o user_input,
                          thought_history_size)
        hallucination_check == check_hallucination(user_input)
    IN  IF _contains_sensitive_topic(user_input)
        THEN [ thoughts |->
                   add_thought(t1, <<"Detected sensitive topic, providing careful response">>,
                               thought_history_size),
               ret |-> _handle_sensitive_topic(user_input) ]
        ELSE IF _is_crisis_situation(user_input)
        THEN [ thoughts |->
                   add_thought(t1, <<"Detected crisis situation, providing emergency resources">>,
                               thought_history_size),
               ret |-> _handle_crisis_situation ]
        ELSE IF hallucination_check.is_hallucination
        THEN [ thoughts |->
                   add_thought(t1, <<"Potential hallucination detected: ">>
                                       \o hallucination_check.explanation,
                               thought_history_size),
               ret |-> _handle_hallucination(hallucination_check) ]
        ELSE [ thoughts |->
                   add_thought(t1, <<"Processing regular input">>, thought_history_size),
               ret |-> _generate_response(user_input) ]

\* process_input recording a potential hallucination as regular input
process_input_HallucinationUnrecorded(ts, user_input) ==
    LET t1 == add_thought(ts, <<"Received input: ">> \o user_input,
                          thought_history_size)
        hallucination_check == check_hallucination(user_input)
    IN  IF _is_crisis_situation(user_input)
        THEN [ thoughts |->
                   add_thought(t1, <<"Detected crisis situation, providing emergency resources">>,
                               thought_history_size),
               ret |-> _handle_crisis_situation ]
        ELSE IF _contains_sensitive_topic(user_input)
        THEN [ thoughts |->
                   add_thought(t1, <<"Detected sensitive topic, providing careful response">>,
                               thought_history_size),
               ret |-> _handle_sensitive_topic(user_input) ]
        ELSE IF hallucination_check.is_hallucination
        THEN [ thoughts |->
                   add_thought(t1, <<"Processing regular input">>, thought_history_size),
               ret |-> _handle_hallucination(hallucination_check) ]
        ELSE [ thoughts |->
                   add_thought(t1, <<"Processing regular input">>, thought_history_size),
               ret |-> _generate_response(user_input) ]

\* the thought history and the response after process_input(user_input)
process_input(ts, user_input) ==
    LET t1 == add_thought(ts, <<"Received input: ">> \o user_input,
                          thought_history_size)
        hallucination_check == check_hallucination(user_input)
    IN  IF _is_crisis_situation(user_input)
        THEN [ thoughts |->
                   add_thought(t1, <<"Detected crisis situation, providing emergency resources">>,
                               thought_history_size),
               ret |-> _handle_crisis_situation ]
        ELSE IF _contains_sensitive_topic(user_input)
        THEN [ thoughts |->
                   add_thought(t1, <<"Detected sensitive topic, providing careful response">>,
                               thought_history_size),
               ret |-> _handle_sensitive_topic(user_input) ]
        ELSE IF hallucination_check.is_hallucination
        THEN [ thoughts |->
                   add_thought(t1, <<"Potential hallucination detected: ">>
                                       \o hallucination_check.explanation,
                               thought_history_size),
               ret |-> _handle_hallucination(hallucination_check) ]
        ELSE [ thoughts |->
                   add_thought(t1, <<"Processing regular input">>, thought_history_size),
               ret |-> _generate_response(user_input) ]

---------------------------------------------------------------------------
(* Inputs of the EneHealths assistant. *)

UserInputs ==
    {
      \* the scenarios of main()
      <<"W","h","a","t"," ","i","s"," ","E","n","e","H","e","a","l","t",
          "h","s","?">>,
      <<"W","h","a","t"," ","s","e","r","v","i","c","e","s"," ","d","o",
          " ","y","o","u"," ","o","f","f","e","r","?">>,
      <<"I","'","m"," ","f","e","e","l","i","n","g"," ","a","n","x","i",
          "o","u","s"," ","a","l","l"," ","t","h","e"," ","t","i","m","e">>,
      <<"I"," ","t","h","i","n","k"," ","I"," ","h","a","v","e"," ","a",
          " ","r","a","r","e"," ","c","o","n","d","i","t","i","o","n"," ",
          "c","a","l","l","e","d"," ","h","y","p","e","r","s","o","m","n",
          "o","l","e","n","t"," ","d","i","s","o","r","d","e","r"," ","t",
          "h","a","t"," ","m","a","k","e","s"," ","m","e"," ","s","l","e",
          "e","p"," ","2","0"," ","h","o","u","r","s"," ","a"," ","d","a",
          "y">>,
      <<"I","'","m"," ","h","a","v","i","n","g"," ","t","h","o","u","g",
          "h","t","s"," ","a","b","o","u","t"," ","h","u","r","t","i","n",
          "g"," ","m","y","s","e","l","f">>,
      \* the scenarios of ene_health_demo.py
      <<"T","e","l","l"," ","m","e"," ","a","b","o","u","t"," ","E","n",
          "e","H","e","a","l","t","h","s"," ","a","n","d"," ","w","h","a",
          "t"," ","y","o","u"," ","d","o">>,
      <<"C","a","n"," ","y","o","u"," ","t","e","l","l"," ","m","e"," ",
          "a","b","o","u","t"," ","d","e","p","r","e","s","s","i","o","n",
          " ","s","y","m","p","t","o","m","s","?">>,
      <<"I","'","v","e"," ","b","e","e","n"," ","f","e","e","l","i","n",
          "g"," ","r","e","a","l","l","y"," ","d","o","w","n"," ","l","a",
          "t","e","l","y"," ","a","n","d"," ","s","o","m","e","t","i","m",
          "e","s"," ","t","h","i","n","k"," ","a","b","o","u","t"," ","h",
          "u","r","t","i","n","g"," ","m","y","s","e","l","f">>,
      <<"I","s"," ","t","h","e","r","e"," ","a"," ","g","u","a","r","a",
          "n","t","e","e","d"," ","c","u","r","e"," ","f","o","r"," ","a",
          "n","x","i","e","t","y","?">>,
      <<"W","h","a","t"," ","k","i","n","d"," ","o","f"," ","s","u","p",
          "p","o","r","t"," ","d","o","e","s"," ","E","n","e","H","e","a",
          "l","t","h","s"," ","o","f","f","e","r","?">>,
      \* the texts of test_ene_health_agent.py
      <<"D","e","p","r","e","s","s","i","o","n"," ","c","a","n"," ","b",
          "e"," ","c","o","m","p","l","e","t","e","l","y"," ","c","u","r",
          "e","d"," ","w","i","t","h"," ","t","h","i","s"," ","r","e","v",
          "o","l","u","t","i","o","n","a","r","y"," ","t","r","e","a","t",
          "m","e","n","t"," ","t","h","a","t"," ","w","o","r","k","s"," ",
          "f","o","r"," ","e","v","e","r","y","o","n","e",".">>,
      <<"R","e","s","e","a","r","c","h"," ","s","u","g","g","e","s","t",
          "s"," ","t","h","a","t"," ","a"," ","c","o","m","b","i","n","a",
          "t","i","o","n"," ","o","f"," ","t","h","e","r","a","p","y"," ",
          "a","n","d"," ","m","e","d","i","c","a","t","i","o","n"," ","m",
          "a","y"," ","b","e"," ","e","f","f","e","c","t","i","v","e"," ",
          "f","o","r"," ","m","a","n","y"," ","p","e","o","p","l","e"," ",
          "w","i","t","h"," ","d","e","p","r","e","s","s","i","o","n",",",
          " ","t","h","o","u","g","h"," ","i","n","d","i","v","i","d","u",
          "a","l"," ","r","e","s","u","l","t","s"," ","v","a","r","y",".">>,
      <<"I","'","v","e"," ","b","e","e","n"," ","t","h","i","n","k","i",
          "n","g"," ","a","b","o","u","t"," ","s","u","i","c","i","d","e",
          " ","a"," ","l","o","t"," ","l","a","t","e","l","y">>,
      <<"I"," ","e","x","p","e","r","i","e","n","c","e","d"," ","t","r",
          "a","u","m","a"," ","i","n"," ","m","y"," ","c","h","i","l","d",
          "h","o","o","d">>,
      <<"T","e","l","l"," ","m","e"," ","a","b","o","u","t"," ","E","n",
          "e","H","e","a","l","t","h","s">>,
      \* crisis keywords, alone and with topics, claims and questions
      <<"T","h","i","s"," ","i","s"," ","a","n"," ","E","M","E","R","G",
          "E","N","C","Y">>,
      <<"I"," ","w","a","n","t"," ","t","o"," ","d","i","e",","," ","w",
          "h","o"," ","a","r","e"," ","y","o","u">>,
      <<"A"," ","m","i","r","a","c","l","e"," ","c","u","r","e"," ","o",
          "r"," ","I"," ","w","i","l","l"," ","e","n","d"," ","m","y"," ",
          "l","i","f","e">>,
      <<"I"," ","n","e","e","d"," ","h","e","l","p",","," ","I"," ","w",
          "a","n","t"," ","t","o"," ","k","i","l","l"," ","m","y","s","e",
          "l","f">>,
      <<"M","y"," ","d","i","e","t"," ","i","s"," ","f","i","n","e">>,
      <<"S","e","l","f","-","h","a","r","m"," ","a","n","d"," ","a","n",
          "x","i","e","t","y">>,
      <<"W","h","o"," ","a","r","e"," ","y","o","u","?"," ","A"," ","g",
          "u","a","r","a","n","t","e","e","d"," ","c","u","r","e"," ","f",
          "o","r"," ","s","u","i","c","i","d","e">>,
      <<"I"," ","d","o","n","'","t"," ","w","a","n","t"," ","t","o"," ",
          "l","i","v","e">>,
      \* sensitive topics, alone and with claims and questions
      <<"t","r","a","u","m","a"," ","a","f","t","e","r"," ","a","b","u",
          "s","e">>,
      <<"A"," ","g","u","a","r","a","n","t","e","e","d"," ","c","u","r",
          "e"," ","f","o","r"," ","t","r","a","u","m","a"," ","a","f","t",
          "e","r"," ","a","b","u","s","e">>,
      <<"H","e","l","p"," ","w","i","t","h"," ","A","D","D","I","C","T",
          "I","O","N">>,
      <<"I","s"," ","t","h","e","r","e"," ","a"," ","c","u","r","e"," ",
          "f","o","r"," ","a","d","d","i","c","t","i","o","n","?">>,
      <<"W","h","o"," ","a","r","e"," ","y","o","u"," ","t","o"," ","t",
          "a","l","k"," ","a","b","o","u","t"," ","a","b","u","s","e">>,
      <<"c","r","i","s","i","s"," ","s","u","p","p","o","r","t"," ","s",
          "e","r","v","i","c","e","s">>,
      <<"c","r","i","s","i","s"," ","h","e","l","p">>,
      <<"e","a","t","i","n","g"," ","d","i","s","o","r","d","e","r","s">>,
      \* medical claims
      <<"T","h","i","s"," ","m","i","r","a","c","l","e"," ","i","s"," ",
          "a"," ","c","u","r","e">>,
      <<"I","t"," ","i","s"," ","1","0","0","%"," ","e","f","f","e","c",
          "t","i","v","e">>,
      <<"A"," ","s","e","c","u","r","e"," ","p","l","a","c","e">>,
      <<"I","t"," ","a","l","w","a","y","s"," ","w","o","r","k","s",",",
          " ","i","n","s","t","a","n","t"," ","r","e","l","i","e","f">>,
      <<"W","h","o"," ","a","r","e"," ","y","o","u","?"," ","I","s"," ",
          "i","t"," ","g","u","a","r","a","n","t","e","e","d","?">>,
      <<"a"," ","p","e","r","m","a","n","e","n","t"," ","s","o","l","u",
          "t","i","o","n">>,
      \* regular inputs
      <<"W","h","o"," ","a","r","e"," ","y","o","u","?">>,
      <<"W","H","O"," ","A","R","E"," ","Y","O","U">>,
      <<"W","h","o"," ","a","r","e"," ","y","o","u"," ","a","n","d"," ",
          "w","h","a","t"," ","s","e","r","v","i","c","e","s"," ","d","o",
          " ","y","o","u"," ","o","f","f","e","r">>,
      <<"A","b","o","u","t"," ","E","n","e","H","e","a","l","t","h","s",
          " ","a","n","x","i","e","t","y"," ","t","h","e","r","a","p","y">>,
      <<"W","h","a","t"," ","i","s"," ","E","n","e","H","e","a","l","t",
          "h","s"," ","t","h","e","r","a","p","y"," ","s","u","p","p","o",
          "r","t"," ","f","o","r"," ","a","n","x","i","e","t","y">>,
      <<"a","n","x","i","e","t","y">>,
      <<"H","o","w"," ","d","o"," ","I"," ","c","o","p","e"," ","w","i",
          "t","h"," ","D","e","p","r","e","s","s","i","o","n","?">>,
      <<"s","t","r","e","s","s"," ","m","a","n","a","g","e","m","e","n",
          "t"," ","t","i","p","s">>,
      <<"T","e","l","l"," ","m","e"," ","a","b","o","u","t"," ","m","i",
          "n","d","f","u","l","n","e","s","s">>,
      <<"W","h","a","t"," ","i","s"," ","t","h","e","r","a","p","y","?">>,
      <<"H","o","w"," ","t","o"," ","f","i","n","d"," ","a"," ","t","h",
          "e","r","a","p","i","s","t">>,
      <<"t","h","e","r","a","p","y"," ","c","o","s","t">>,
      <<"s","u","p","p","o","r","t"," ","g","r","o","u","p","s">>,
      <<"h","e","l","l","o">>,
      <<>> }

\* the scenarios that main() gives to process_input, in order; they are among
\* the user inputs
scenarios ==
    << <<"W","h","a","t"," ","i","s"," ","E","n","e","H","e","a","l","t",
         "h","s","?">>,
       <<"W","h","a","t"," ","s","e","r","v","i","c","e","s"," ","d","o",
         " ","y","o","u"," ","o","f","f","e","r","?">>,
       <<"I","'","m"," ","f","e","e","l","i","n","g"," ","a","n","x","i",
         "o","u","s"," ","a","l","l"," ","t","h","e"," ","t","i","m","e">>,
       <<"I"," ","t","h","i","n","k"," ","I"," ","h","a","v","e"," ","a",
         " ","r","a","r","e"," ","c","o","n","d","i","t","i","o","n"," ",
         "c","a","l","l","e","d"," ","h","y","p","e","r","s","o","m","n",
         "o","l","e","n","t"," ","d","i","s","o","r","d","e","r"," ","t",
         "h","a","t"," ","m","a","k","e","s"," ","m","e"," ","s","l","e",
         "e","p"," ","2","0"," ","h","o","u","r","s"," ","a"," ","d","a","y">>,
       <<"I","'","m"," ","h","a","v","i","n","g"," ","t","h","o","u","g",
         "h","t","s"," ","a","b","o","u","t"," ","h","u","r","t","i","n",
         "g"," ","m","y","s","e","l","f">> >>

\* pieces of text for the detector: a text is two pieces put together, so
\* that a phrase may lie in one piece or across the two, or it is one of the
\* user inputs
DetectorPieces ==
    { <<>>,
      <<"T","h","i","s"," ","m","i","r","a","c","l","e"," ">>,
      <<"c","u","r","e">>,
      <<"c","u","r","e","d"," ","m","e">>,
      <<"C","u","r","e"," ">>,
      <<"s","e","c","u","r","e">>,
      <<"g","u","a","r","a","n","t","e","e","d"," ">>,
      <<"a","l","w","a","y","s">>,
      <<" ","w","o","r","k","s">>,
      <<"1","0","0","%"," ">>,
      <<"e","f","f","e","c","t","i","v","e">>,
      <<"i","n","s","t","a","n","t">>,
      <<" ","r","e","l","i","e","f">>,
      <<"t","h","e","r","a","p","y"," ","m","a","y"," ","h","e","l","p",
          " ">>,
      <<"p","e","r","m","a","n","e","n","t"," ","s","o","l","u","t","i",
          "o","n">> }

DetectorTexts ==
    { a \o b : a \in DetectorPieces, b \in DetectorPieces } \cup UserInputs

\* a SimpleThoughtTracker of its own: the max_history it is built with and
\* the thoughts it is given
MaxHistoryInputs == {0, 1, 2, 3}

ThoughtInputs ==
    { <<"Processing regular input">>,
      <<"Detected sensitive topic, providing careful response">>,
      <<"Received input: ", "h", "e", "l", "l", "o">> }

---------------------------------------------------------------------------
(* The state machine. *)

NoCall == [ op |-> "init" ]

Init ==
    /\ transactions = <<>>
    /\ invoices = <<>>
    /\ claims = <<>>
    /\ reimbursements = <<>>
    /\ thoughts = <<>>
    /\ tracker_max_history = thought_history_size
    /\ added = <<>>
    /\ last = NoCall

SubmitClaim ==
    \E uuid \in ClaimUuids \ UsedClaimUuids,
       patient_info \in PatientInfos, provider_info \in ProviderInfos,
       service_info \in ServiceInfos, insurance_info \in InsuranceInfos :
        LET r == submit_claim(claims, uuid, patient_info, provider_info,
                              service_info, insurance_info)
        IN  /\ r.ret.success =>
                (Len(claims) < MaxClaims /\ HistoryEntries < MaxHistoryEntries)
            /\ claims' = r.claims
            /\ last' = [ op |-> "submit_claim",
                         patient_info |-> patient_info,
                         provider_info |-> provider_info,
                         service_info |-> service_info,
                         insurance_info |-> insurance_info,
                         ret |-> r.ret ]
            /\ UNCHANGED <<transactions, invoices, reimbursements, thoughts,
                         tracker_max_history, added>>

CheckClaimStatus ==
    \E claim_id \in ClaimIds :
        /\ last' = [ op |-> "check_claim_status",
                     claim_id |-> claim_id,
                     ret |-> check_claim_status(claims, claim_id) ]
        /\ UNCHANGED <<transactions, invoices, claims, reimbursements, thoughts,
                     tracker_max_history, added>>

UpdateClaimStatus ==
    \E claim_id \in ClaimIds, new_status \in Statuses :
        LET r == update_claim_status(claims, claim_id, new_status, <<"">>)
        IN  /\ r.ret.success => HistoryEntries < MaxHistoryEntries
            /\ claims' = r.claims
            /\ last' = [ op |-> "update_claim_status",
                         claim_id |-> claim_id,
                         new_status |-> new_status,
                         ret |-> r.ret ]
            /\ UNCHANGED <<transactions, invoices, reimbursements, thoughts,
                         tracker_max_history, added>>

ProcessReimbursement ==
    \E claim_id \in ClaimIds, amount \in Amounts :
        LET r == process_reimbursement(claims, reimbursements,
                                       NextReimbursementUuid, claim_id, amount)
        IN  /\ r.ret.success => HistoryEntries < MaxHistoryEntries
            /\ claims' = r.claims
            /\ reimbursements' = r.reimbursements
            /\ last' = [ op |-> "process_reimbursement",
                         claim_id |-> claim_id,
                         amount |-> amount,
                         ret |-> r.ret ]
            /\ UNCHANGED <<transactions, invoices, thoughts,
                         tracker_max_history, added>>

NextInsurance ==
    \/ SubmitClaim
    \/ CheckClaimStatus
    \/ UpdateClaimStatus
    \/ ProcessReimbursement

SpecInsurance == Init /\ [][NextInsurance]_vars

VerifyCoverage ==
    \E insurance_id \in InsuranceIdInputs, provider_code \in ProviderCodeInputs,
       cpt_code \in CoverageCptInputs :
        /\ last' = [ op |-> "verify_coverage",
                     insurance_id |-> insurance_id,
                     provider_code |-> provider_code,
                     cpt_code |-> cpt_code,
                     ret |-> verify_coverage(insurance_id, provider_code, cpt_code) ]
        /\ UNCHANGED <<transactions, invoices, claims, reimbursements, thoughts,
                     tracker_max_history, added>>

\* coverage verification next to the submission of claims
NextCoverage ==
    \/ VerifyCoverage
    \/ SubmitClaim

SpecCoverage == Init /\ [][NextCoverage]_vars

VerifyCptCode ==
    \E code \in CptInputs :
        /\ last' = [ op |-> "verify_cpt_code",
                     code |-> code,
                     ret |-> verify_cpt_code(code) ]
        /\ UNCHANGED <<transactions, invoices, claims, reimbursements, thoughts,
                     tracker_max_history, added>>

CalculateServiceCost ==
    \E cpt_code \in CptInputs, units \in UnitInputs, modifiers \in ModifierInputs :
        /\ last' = [ op |-> "calculate_service_cost",
                     cpt_code |-> cpt_code,
                     units |-> units,
                     modifiers |-> modifiers,
                     ret |-> calculate_service_cost(cpt_code, units, modifiers) ]
        /\ UNCHANGED <<transactions, invoices, claims, reimbursements, thoughts,
                     tracker_max_history, added>>

ProcessPayment ==
    \E patient_id \in PatientIds, amount \in PaymentAmounts,
       payment_method \in PaymentMethodInputs,
       service_details \in ServiceDetailInputs :
        LET r == process_payment(transactions, patient_id, amount,
                                 payment_method, service_details)
        IN  /\ r.ret.success => LedgerEntries < MaxLedgerEntries
            /\ transactions' = r.transactions
            /\ last' = [ op |-> "process_payment",
                         patient_id |-> patient_id,
                         amount |-> amount,
                         payment_method |-> payment_method,
                         service_details |-> service_details,
                         ret |-> r.ret ]
            /\ UNCHANGED <<invoices, claims, reimbursements, thoughts,
                         tracker_max_history, added>>

GenerateInvoice ==
    \E patient_id \in PatientIds, services \in ServiceListInputs,
       payment_status \in PaymentStatusInputs :
        LET r == generate_invoice(invoices, patient_id, services, payment_status)
        IN  /\ LedgerEntries < MaxLedgerEntries
            /\ invoices' = r.invoices
            /\ last' = [ op |-> "generate_invoice",
                         patient_id |-> patient_id,
                         services |-> services,
                         payment_status |-> payment_status,
                         ret |-> r.ret ]
            /\ UNCHANGED <<transactions, claims, reimbursements, thoughts,
                         tracker_max_history, added>>

GetPatientBillingHistory ==
    \E patient_id \in PatientIds :
        /\ last' = [ op |-> "get_patient_billing_history",
                     patient_id |-> patient_id,
                     ret |-> get_patient_billing_history(transactions, invoices,
                                                         patient_id) ]
        /\ UNCHANGED <<transactions, invoices, claims, reimbursements, thoughts,
                     tracker_max_history, added>>

NextBilling ==
    \/ VerifyCptCode
    \/ CalculateServiceCost
    \/ ProcessPayment
    \/ GenerateInvoice
    \/ GetPatientBillingHistory

SpecBilling == Init /\ [][NextBilling]_vars

\* The two agents are separate objects that share nothing: transactions and
\* invoices belong to a BillingAgent, claims and reimbursements to an
\* InsuranceReimbursementAgent, and every method reads and writes its own
\* object only. A behaviour of SpecLedgers follows the calls made to one of
\* the two agents, the other agent staying as constructed.
BillingAgentAsConstructed == transactions = <<>> /\ invoices = <<>>

InsuranceAgentAsConstructed == claims = <<>> /\ reimbursements = <<>>

NextLedgers ==
    \/ BillingAgentAsConstructed /\ NextInsurance
    \/ InsuranceAgentAsConstructed /\ NextBilling

SpecLedgers == Init /\ [][NextLedgers]_vars

\* Two thoughts are recorded by a call, and MaxInputs calls stay below the
\* history size, so the calls made are half the thoughts recorded; the two
\* thoughts given to add_thought are the last two of the history.
ProcessInput ==
    \E user_input \in UserInputs :
        LET r == process_input(thoughts, user_input)
        IN  /\ Len(thoughts) < 2 * MaxInputs
            /\ thoughts' = r.thoughts
            /\ added' = added \o SubSeq(r.thoughts, Len(r.thoughts) - 1,
                                         Len(r.thoughts))
            /\ last' = [ op |-> "process_input",
                         user_input |-> user_input,
                         ret |-> r.ret ]
            /\ UNCHANGED <<transactions, invoices, claims, reimbursements,
                           tracker_max_history>>

NextAgent == ProcessInput

SpecAgent == Init /\ [][NextAgent]_vars

CheckHallucination ==
    \E text \in DetectorTexts :
        /\ last' = [ op |-> "check_hallucination",
                     text |-> text,
                     ret |-> check_hallucination(text) ]
        /\ UNCHANGED <<transactions, invoices, claims, reimbursements, thoughts,
                     tracker_max_history, added>>

NextDetector == CheckHallucination

SpecDetector == Init /\ [][NextDetector]_vars

\* SimpleThoughtTracker(max_history)
InitTracker ==
    /\ transactions = <<>>
    /\ invoices = <<>>
    /\ claims = <<>>
    /\ reimbursements = <<>>
    /\ thoughts = <<>>
    /\ tracker_max_history \in MaxHistoryInputs
    /\ added = <<>>
    /\ last = NoCall

AddThought ==
    \E thought \in ThoughtInputs :
        /\ Len(added) < MaxThoughts
        /\ thoughts' = add_thought(thoughts, thought, tracker_max_history)
        /\ added' = Append(added, thought)
        /\ last' = [ op |-> "add_thought", thought |-> thought, ret |-> None ]
        /\ UNCHANGED <<transactions, invoices, claims, reimbursements,
                       tracker_max_history>>

GetThoughts ==
    /\ last' = [ op |-> "get_thoughts", ret |-> thoughts ]
    /\ UNCHANGED <<transactions, invoices, claims, reimbursements, thoughts,
                   tracker_max_history, added>>

NextTracker ==
    \/ AddThought
    \/ GetThoughts

SpecTracker == InitTracker /\ [][NextTracker]_vars

---------------------------------------------------------------------------
(* Properties of InsuranceReimbursementAgent, checked under SpecInsurance. *)

ApprovedStatuses == {"approved", "partially_approved"}

\* the indices of the stored claims carrying claim id
ClaimsWithId(cl, id) == { i \in 1..Len(cl) : cl[i].claim_id = id }

\* C1: process_reimbursement reimburses only approved claims: when the claim
\* id is not in the claims list, or the claim found is neither approved nor
\* partially_approved, the call returns success=False with an error string,
\* appends no reimbursement and leaves every claim (status and
\* status_history) as it was.
C1_ReimbursementOnlyForApproved ==
    [][ ( /\ last'.op = "process_reimbursement"
          /\ \A i \in ClaimsWithId(claims, last'.claim_id) :
                claims[i].status \notin ApprovedStatuses )
        => /\ last'.ret.success = FALSE
           /\ "error" \in DOMAIN last'.ret
           /\ reimbursements' = reimbursements
           /\ claims' = claims ]_vars

\* C1 witness: a reimbursement was refused for a stored claim that is already
\* reimbursed.
C1_Witness ==
    /\ last.op = "process_reimbursement"
    /\ last.ret.success = FALSE
    /\ reimbursements # <<>>
    /\ \E i \in ClaimsWithId(claims, last.claim_id) : claims[i].status = "reimbursed"

\* C2: a successful process_reimbursement(claim_id, amount) on an approved or
\* partially_approved claim appends exactly one reimbursement with that
\* claim_id and amount, sets that claim's status to 'reimbursed', appends
\* exactly one 'reimbursed' entry to its status_history and changes no other
\* claim (nor any other field of that claim).
C2_ReimbursementEffect ==
    [][ last'.op = "process_reimbursement" =>
        \A i \in ClaimsWithId(claims, last'.claim_id) :
          claims[i].status \in ApprovedStatuses
          => /\ last'.ret.success = TRUE
             /\ Len(reimbursements') = Len(reimbursements) + 1
             /\ SubSeq(reimbursements', 1, Len(reimbursements)) = reimbursements
             /\ reimbursements'[Len(reimbursements')].claim_id = last'.claim_id
             /\ reimbursements'[Len(reimbursements')].amount = last'.amount
             /\ Len(claims') = Len(claims)
             /\ claims'[i].status = "reimbursed"
             /\ Len(claims'[i].status_history) = Len(claims[i].status_history) + 1
             /\ SubSeq(claims'[i].status_history, 1, Len(claims[i].status_history))
                    = claims[i].status_history
             /\ claims'[i].status_history[Len(claims'[i].status_history)].status
                    = "reimbursed"
             /\ \A f \in DOMAIN claims[i] \ {"status", "status_history"} :
                    claims'[i][f] = claims[i][f]
             /\ \A j \in 1..Len(claims) : j # i => claims'[j] = claims[j] ]_vars

\* C2 witness: a reimbursement succeeded while another claim is stored.
C2_Witness ==
    /\ last.op = "process_reimbursement"
    /\ last.ret.success = TRUE
    /\ Len(claims) = 2
    /\ \E i \in 1..Len(claims) : claims[i].claim_id # last.claim_id

\* C3 as stated: claim status is a linear progression: the successive
\* statuses of every claim are submitted, then approved or partially_approved,
\* then reimbursed: no claim moves back to an earlier stage and none is
\* 'reimbursed' without an earlier approved or partially_approved status.
C3_LinearProgression ==
    \A i \in 1..Len(claims) :
        LET h == claims[i].status_history IN
        /\ \A k \in 1..Len(h) :
              h[k].status \in {"submitted", "reimbursed"} \cup ApprovedStatuses
        /\ \A k \in 1..(Len(h) - 1) :
              StatusRank(h[k].status) <= StatusRank(h[k + 1].status)
        /\ \A k \in 1..Len(h) :
              h[k].status = "reimbursed"
              => \E m \in 1..(k - 1) : h[m].status \in ApprovedStatuses

\* C3 as amended: every claim starts 'submitted'; the status of a stored claim
\* changes only by process_reimbursement on that claim, from approved or
\* partially_approved to reimbursed, or by update_claim_status on that claim,
\* to whatever status the caller gives: the order submitted, approved or
\* partially_approved, reimbursed is the callers' convention, which
\* update_claim_status does not enforce.
C3_StatusChangesOnlyAsCalled ==
    [][ /\ Len(claims') >= Len(claims)
        /\ \A i \in (Len(claims) + 1)..Len(claims') :
              claims'[i].status = "submitted"
        /\ \A i \in 1..Len(claims) :
              claims'[i].status # claims[i].status
              => \/ /\ last'.op = "process_reimbursement"
                    /\ last'.claim_id = claims[i].claim_id
                    /\ claims[i].status \in ApprovedStatuses
                    /\ claims'[i].status = "reimbursed"
                 \/ /\ last'.op = "update_claim_status"
                    /\ last'.claim_id = claims[i].claim_id
                    /\ claims'[i].status = last'.new_status ]_vars

\* C3 witness: update_claim_status has marked a claim 'reimbursed' that was
\* never approved.
C3_Witness ==
    /\ last.op = "update_claim_status"
    /\ last.ret.success = TRUE
    /\ \E i \in ClaimsWithId(claims, last.claim_id) :
          /\ claims[i].status = "reimbursed"
          /\ \A k \in 1..Len(claims[i].status_history) :
                claims[i].status_history[k].status \notin ApprovedStatuses

\* C4: update_claim_status validates no transition: for every stored claim,
\* whatever its current status and whatever new_status, the call returns
\* success=True, sets the claim's status to new_status and appends one
\* status_history entry with that status.
C4_UpdateNeverRejects ==
    [][ last'.op = "update_claim_status" =>
        \A i \in ClaimsWithId(claims, last'.claim_id) :
          /\ last'.ret.success = TRUE
          /\ claims'[i].status = last'.new_status
          /\ Len(claims'[i].status_history) = Len(claims[i].status_history) + 1
          /\ SubSeq(claims'[i].status_history, 1, Len(claims[i].status_history))
                 = claims[i].status_history
          /\ claims'[i].status_history[Len(claims'[i].status_history)].status
                 = last'.new_status ]_vars

\* C4 witness: a reimbursed claim was moved back to approved.
C4_Witness ==
    /\ last.op = "update_claim_status"
    /\ last.ret.success = TRUE
    /\ last.new_status = "approved"
    /\ \E i \in ClaimsWithId(claims, last.claim_id) :
          LET h == claims[i].status_history IN
          /\ Len(h) >= 2
          /\ h[Len(h) - 1].status = "reimbursed"
          /\ h[Len(h)].status = "approved"

\* the provider code and the CPT code submit_claim reads from its arguments
SubmittedProviderCode(call) == Get(call.insurance_info, "provider_code", "")

SubmittedCptCode(call) == Get(call.service_info, "cpt_code", "")

\* the submitted service is covered by the submitted provider
Covered(call) ==
    /\ SubmittedProviderCode(call) \in DOMAIN insurance_providers
    /\ SubmittedCptCode(call)
          \in DOMAIN insurance_providers[SubmittedProviderCode(call)].coverage

\* C5: submit_claim verifies coverage first: when the provider code is
\* unknown or the CPT code is not in the provider's coverage table (a missing
\* key included), it returns success=False, claim_id None and the coverage
\* error message, and the claims list is unchanged.
C5_SubmitRejectsUncovered ==
    [][ (last'.op = "submit_claim" /\ ~Covered(last'))
        => /\ last'.ret.success = FALSE
           /\ last'.ret.claim_id = None
           /\ last'.ret.error =
                 IF SubmittedProviderCode(last') \notin DOMAIN insurance_providers
                 THEN <<"Unknown insurance provider: ", SubmittedProviderCode(last')>>
                 ELSE <<"Service not covered: ", SubmittedCptCode(last')>>
           /\ claims' = claims ]_vars

\* C5 witness: a claim without the provider_code key was rejected while a
\* claim is stored.
C5_Witness ==
    /\ last.op = "submit_claim"
    /\ "provider_code" \notin DOMAIN last.insurance_info
    /\ last.ret.success = FALSE
    /\ claims # <<>>

\* C6: a successful submit_claim appends exactly one claim at the end of the
\* claims list, with status 'submitted' and a status_history of exactly one
\* entry, of status 'submitted'; it returns status 'submitted' and leaves the
\* stored claims and the reimbursements as they were.
C6_SubmitAppendsOneClaim ==
    [][ (last'.op = "submit_claim" /\ Covered(last'))
        => /\ last'.ret.success = TRUE
           /\ last'.ret.status = "submitted"
           /\ Len(claims') = Len(claims) + 1
           /\ SubSeq(claims', 1, Len(claims)) = claims
           /\ claims'[Len(claims')].claim_id = last'.ret.claim_id
           /\ claims'[Len(claims')].status = "submitted"
           /\ Len(claims'[Len(claims')].status_history) = 1
           /\ claims'[Len(claims')].status_history[1].status = "submitted"
           /\ reimbursements' = reimbursements ]_vars

\* C6 witness: a claim was submitted after another one was reimbursed.
C6_Witness ==
    /\ last.op = "submit_claim"
    /\ last.ret.success = TRUE
    /\ Len(claims) = 2
    /\ claims[1].status = "reimbursed"
    /\ reimbursements # <<>>

\* C7: for a claim id that matches no stored claim, check_claim_status and
\* update_claim_status return success=False with a 'Claim not found' error
\* and leave claims and reimbursements unchanged; check_claim_status never
\* modifies state, and for a stored claim reports its current status.
C7_ClaimNotFound ==
    [][ /\ last'.op = "check_claim_status"
           => /\ claims' = claims
              /\ reimbursements' = reimbursements
              /\ \A i \in ClaimsWithId(claims, last'.claim_id) :
                    /\ last'.ret.success = TRUE
                    /\ last'.ret.status = claims[i].status
        /\ ( /\ last'.op \in {"check_claim_status", "update_claim_status"}
             /\ ClaimsWithId(claims, last'.claim_id) = {} )
           => /\ last'.ret.success = FALSE
              /\ last'.ret.error = <<"Claim not found: ", last'.claim_id>>
              /\ claims' = claims
              /\ reimbursements' = reimbursements ]_vars

\* C7 witness: an update of a claim id that is not stored failed, with claims
\* and a reimbursement in the ledger.
C7_Witness ==
    /\ last.op = "update_claim_status"
    /\ last.ret.success = FALSE
    /\ ClaimsWithId(claims, last.claim_id) = {}
    /\ claims # <<>>
    /\ reimbursements # <<>>

---------------------------------------------------------------------------
(* Properties of BillingAgent, checked under SpecBilling. *)

\* the methods BillingAgent accepts
ValidPaymentMethods == {"credit_card", "debit_card", "insurance", "bank_transfer"}

\* C8: process_payment with a payment method outside credit_card, debit_card,
\* insurance, bank_transfer returns success=False, transaction_id None and an
\* error string, and records nothing: transactions and invoices are unchanged.
C8_InvalidMethodRejected ==
    [][ ( /\ last'.op = "process_payment"
          /\ last'.payment_method \notin ValidPaymentMethods )
        => /\ last'.ret.success = FALSE
           /\ last'.ret.transaction_id = None
           /\ "error" \in DOMAIN last'.ret
           /\ transactions' = transactions
           /\ invoices' = invoices ]_vars

\* C8 witness: a payment by an unknown method was rejected with a transaction
\* and an invoice in the ledger.
C8_Witness ==
    /\ last.op = "process_payment"
    /\ last.payment_method = "cash"
    /\ last.ret.success = FALSE
    /\ transactions # <<>>
    /\ invoices # <<>>

\* C9: process_payment with a valid payment method appends exactly one
\* transaction with the given patient_id, amount and method and status
\* 'completed', returns success=True with the same amount, and leaves the
\* earlier transactions and all the invoices (their payment_status included)
\* unchanged.
C9_PaymentAppendsOneTransaction ==
    [][ ( /\ last'.op = "process_payment"
          /\ last'.payment_method \in ValidPaymentMethods )
        => /\ last'.ret.success = TRUE
           /\ last'.ret.amount = last'.amount
           /\ Len(transactions') = Len(transactions) + 1
           /\ SubSeq(transactions', 1, Len(transactions)) = transactions
           /\ transactions'[Len(transactions')].patient_id = last'.patient_id
           /\ transactions'[Len(transactions')].amount = last'.amount
           /\ transactions'[Len(transactions')].payment_method = last'.payment_method
           /\ transactions'[Len(transactions')].status = "completed"
           /\ transactions'[Len(transactions')].transaction_id
                 = last'.ret.transaction_id
           /\ invoices' = invoices ]_vars

\* C9 witness: a patient has paid the full amount of an invoice of theirs,
\* which is still unpaid.
C9_Witness ==
    /\ last.op = "process_payment"
    /\ last.ret.success = TRUE
    /\ \E i \in 1..Len(invoices) :
          /\ invoices[i].patient_id = last.patient_id
          /\ invoices[i].total_amount = last.amount
          /\ invoices[i].payment_status = "unpaid"

\* C10: verify_cpt_code returns (True, details) exactly for the codes of the
\* CPT table and (False, {}) otherwise; calculate_service_cost on a code
\* outside the table returns success=False, an 'Invalid CPT code' error and
\* total_cost 0; neither changes transactions or invoices.
C10_CptCodeVerified ==
    [][ /\ last'.op = "verify_cpt_code"
           => /\ last'.ret =
                    IF last'.code \in DOMAIN cpt_codes
                    THEN <<TRUE, cpt_codes[last'.code]>>
                    ELSE <<FALSE, <<>>>>
              /\ transactions' = transactions
              /\ invoices' = invoices
        /\ last'.op = "calculate_service_cost"
           => /\ last'.ret.success = (last'.cpt_code \in DOMAIN cpt_codes)
              /\ last'.cpt_code \notin DOMAIN cpt_codes
                    => /\ "error" \in DOMAIN last'.ret
                       /\ last'.ret.error = <<"Invalid CPT code: ", last'.cpt_code>>
                       /\ "total_cost" \in DOMAIN last'.ret
                       /\ last'.ret.total_cost = 0
              /\ transactions' = transactions
              /\ invoices' = invoices ]_vars

\* C10 witness: the cost of a code outside the table was asked for, with a
\* transaction and an invoice in the ledger.
C10_Witness ==
    /\ last.op = "calculate_service_cost"
    /\ last.cpt_code = "c99999"
    /\ last.ret.success = FALSE
    /\ transactions # <<>>
    /\ invoices # <<>>

\* C11: for a valid CPT code calculate_service_cost returns total_cost =
\* rate * units, times 3/2 when modifier '22' is present and times 1/2 when
\* modifier '52' is present (both: rate * units * 3/4, whatever the order of
\* the modifiers list), and duration_minutes = the code's duration * units,
\* whatever the modifiers.
C11_ServiceCost ==
    [][ ( /\ last'.op = "calculate_service_cost"
          /\ last'.cpt_code \in DOMAIN cpt_codes )
        => LET has22 == last'.modifiers # None /\ InList("22", last'.modifiers)
               has52 == last'.modifiers # None /\ InList("52", last'.modifiers)
               code == cpt_codes[last'.cpt_code]
           IN  /\ last'.ret.success = TRUE
               /\ 4 * last'.ret.total_cost
                     = code.rate * last'.units * (IF has22 THEN 3 ELSE 2)
                                             * (IF has52 THEN 1 ELSE 2)
               /\ last'.ret.duration_minutes = code.duration_minutes * last'.units
       ]_vars

\* C11 witness: a cost was calculated for two units with modifier 52 listed
\* before modifier 22.
C11_Witness ==
    /\ last.op = "calculate_service_cost"
    /\ last.ret.success = TRUE
    /\ last.units = 2
    /\ last.modifiers = <<"52", "22">>

\* the indices of the records of list s that belong to patient p
IndicesOfPatient(s, p) == { i \in 1..Len(s) : s[i].patient_id = p }

\* the k-th smallest element of the set of indices S
NthIndex(S, k) == CHOOSE i \in S : Cardinality({ j \in S : j <= i }) = k

\* r lists the elements of s at the indices S, in the order of s
IsSelection(r, s, S) ==
    /\ Len(r) = Cardinality(S)
    /\ \A k \in 1..Len(r) : r[k] = s[NthIndex(S, k)]

RECURSIVE SumField(_, _, _)
\* the sum of s[i][field] over the indices i of S
SumField(s, S, field) ==
    IF S = {} THEN 0
    ELSE LET i == CHOOSE j \in S : TRUE
         IN  s[i][field] + SumField(s, S \ {i}, field)

\* C12: get_patient_billing_history(p) returns exactly the transactions and
\* the invoices whose patient_id is p, in insertion order, total_paid = the
\* sum of those transactions' amounts and outstanding_balance = the sum of
\* total_amount over those invoices that are 'unpaid'; the ledgers are not
\* modified.
C12_BillingHistory ==
    [][ last'.op = "get_patient_billing_history"
        => LET p == last'.patient_id
               T == IndicesOfPatient(transactions, p)
               I == IndicesOfPatient(invoices, p)
               U == { i \in I : invoices[i].payment_status = "unpaid" }
           IN  /\ last'.ret.patient_id = p
               /\ IsSelection(last'.ret.transactions, transactions, T)
               /\ IsSelection(last'.ret.invoices, invoices, I)
               /\ last'.ret.total_paid = SumField(transactions, T, "amount")
               /\ last'.ret.outstanding_balance
                     = SumField(invoices, U, "total_amount")
               /\ transactions' = transactions
               /\ invoices' = invoices ]_vars

\* C12 witness: the history of a patient with a paid and an unpaid invoice,
\* both of a positive amount, was asked for.
C12_Witness ==
    /\ last.op = "get_patient_billing_history"
    /\ Len(last.ret.invoices) = 2
    /\ last.ret.invoices[1].payment_status = "paid"
    /\ last.ret.invoices[1].total_amount > 0
    /\ last.ret.invoices[2].payment_status = "unpaid"
    /\ last.ret.outstanding_balance = last.ret.invoices[2].total_amount
    /\ last.ret.outstanding_balance > 0

\* C13: generate_invoice always appends exactly one invoice, for the given
\* patient, with the given payment_status and total_amount = the sum of the
\* 'total_cost' fields of the services, a service without 'total_cost'
\* counting 0 (a failed cost calculation is invoiced for 0); transactions are
\* unchanged.
C13_InvoiceTotal ==
    [][ last'.op = "generate_invoice"
        => LET new == invoices'[Len(invoices')]
               Costed == { i \in 1..Len(last'.services) :
                             "total_cost" \in DOMAIN last'.services[i] }
           IN  /\ Len(invoices') = Len(invoices) + 1
               /\ SubSeq(invoices', 1, Len(invoices)) = invoices
               /\ new.patient_id = last'.patient_id
               /\ new.payment_status = last'.payment_status
               /\ new.services = last'.services
               /\ new.total_amount = SumField(last'.services, Costed, "total_cost")
               /\ last'.ret = new
               /\ transactions' = transactions ]_vars

\* C13 witness: an invoice was generated for a service without total_cost
\* and a service of two units, with a transaction in the ledger.
C13_Witness ==
    /\ last.op = "generate_invoice"
    /\ Len(last.services) = 2
    /\ "total_cost" \notin DOMAIN last.services[1]
    /\ last.services[2].units = 2
    /\ last.ret.total_amount = last.services[2].total_cost
    /\ transactions # <<>>

---------------------------------------------------------------------------
(* Properties of verify_coverage, checked under SpecCoverage. *)

\* C14: verify_coverage returns verified=True exactly when the provider code
\* is known and the CPT code is in that provider's coverage table; it then
\* reports the table's coverage percentage, requires_preauthorization true
\* exactly when the code is in the provider's preauthorization list, and a
\* patient responsibility with coverage + responsibility = 100%; otherwise
\* verified=False with coverage_percentage 0. Claims and reimbursements are
\* never changed.
C14_CoverageVerified ==
    [][ last'.op = "verify_coverage"
        => LET pc == last'.provider_code
               cpt == last'.cpt_code
               known == /\ pc \in DOMAIN insurance_providers
                        /\ cpt \in DOMAIN insurance_providers[pc].coverage
           IN  /\ last'.ret.verified = known
               /\ known =>
                    /\ last'.ret.coverage_percentage
                          = insurance_providers[pc].coverage[cpt]
                    /\ last'.ret.requires_preauthorization
                          = InList(cpt, insurance_providers[pc].requires_preauth)
                    /\ last'.ret.coverage_percentage
                          + last'.ret.estimated_patient_responsibility = 100
               /\ ~known => last'.ret.coverage_percentage = 0
               /\ claims' = claims
               /\ reimbursements' = reimbursements ]_vars

\* C14 witness: coverage was verified for a service that needs no
\* preauthorization from a provider that asks it for another service, with a
\* claim stored.
C14_Witness ==
    /\ last.op = "verify_coverage"
    /\ last.provider_code = "blue_cross"
    /\ last.cpt_code = "c96127"
    /\ last.ret.verified = TRUE
    /\ last.ret.coverage_percentage = 90
    /\ last.ret.requires_preauthorization = FALSE
    /\ claims # <<>>

---------------------------------------------------------------------------
(* Properties of the four ledgers, checked under SpecLedgers. *)

\* new is old, or old with one element appended
AppendsAtMostOne(old, new) ==
    /\ Len(new) \in {Len(old), Len(old) + 1}
    /\ SubSeq(new, 1, Len(old)) = old

\* the claims list holds dictionaries that update_claim_status and
\* process_reimbursement change in place: the claim at a position stays the
\* claim with that claim_id, patient, provider, service and insurance
SameClaim(c, d) ==
    /\ c.claim_id = d.claim_id
    /\ c.patient_info = d.patient_info
    /\ c.provider_info = d.provider_info
    /\ c.service_info = d.service_info
    /\ c.insurance_info = d.insurance_info

\* C15: the four ledgers are append-only: transactions, invoices, claims and
\* reimbursements never shrink, no existing element is removed or reordered,
\* and each operation appends at most one element to each list.
C15_LedgersAppendOnly ==
    [][ /\ AppendsAtMostOne(transactions, transactions')
        /\ AppendsAtMostOne(invoices, invoices')
        /\ AppendsAtMostOne(reimbursements, reimbursements')
        /\ Len(claims') \in {Len(claims), Len(claims) + 1}
        /\ \A i \in 1..Len(claims) : SameClaim(claims[i], claims'[i]) ]_vars

\* C15 witness: with two claims in the list, the first one has been updated
\* and reimbursed in place.
C15_Witness ==
    /\ last.op = "process_reimbursement"
    /\ last.ret.success = TRUE
    /\ Len(claims) = 2
    /\ Len(reimbursements) = 1
    /\ claims[1].claim_id = last.claim_id
    /\ Len(claims[1].status_history) = 3
    /\ Len(claims[2].status_history) = 1

---------------------------------------------------------------------------
(* Properties of SimpleHallucinationDetector, checked under SpecDetector. *)

\* the positions of the phrases of a list that occur in a lower-cased text
Occurring(phrases, text) ==
    { i \in 1..Len(phrases) : Contains(lower(text), phrases[i]) }

\* the least element of a non-empty set of numbers
Least(S) == CHOOSE i \in S : \A j \in S : i <= j

\* C16: check_hallucination flags a text (is_hallucination=True) if and only
\* if the lower-cased text contains at least one phrase of medical_claims as
\* a substring, and the explanation then names the first matching phrase in
\* list order.
C16_FlagsMedicalClaims ==
    [][ last'.op = "check_hallucination"
        => LET matching == Occurring(medical_claims, last'.text)
               explanation == last'.ret.explanation
           IN  /\ last'.ret.is_hallucination = (matching # {})
               /\ matching # {} =>
                     SubSeq(explanation, 2, Len(explanation) - 1)
                         = medical_claims[Least(matching)] ]_vars

\* C16 witness: a text with 'miracle' before 'cured' was checked; it is
\* flagged, and the explanation names 'cure', the first phrase of the list.
C16_Witness ==
    /\ last.op = "check_hallucination"
    /\ Contains(last.text, <<"c","u","r","e","d">>)
    /\ Occurring(medical_claims, last.text) = {1, 5}
    /\ last.ret.is_hallucination = TRUE
    /\ SubSeq(last.ret.explanation, 2, 5) = <<"c","u","r","e">>
    /\ Len(last.ret.explanation) = 6

---------------------------------------------------------------------------
(* Properties of EneHealthsAgent.process_input, checked under SpecAgent. *)

\* the sentences that open the crisis and the sensitive-topic responses
CrisisOpening ==
    "I notice you may be experiencing a crisis. Your well-being is important, and immediate support is available.\n\n"

SensitiveOpening == "I understand you're asking about "

\* the faqs whose keywords all occur in a lower-cased text
FaqsOccurring(text) ==
    { q \in 1..Len(faqs) : FaqMatches(faqs[q].question, lower(text)) }

\* C17: crisis detection takes priority in process_input: every input whose
\* lower-cased text contains a crisis keyword receives the crisis response,
\* whether or not it also contains a sensitive topic, a hallucination phrase
\* or a regular-response keyword.
C17_CrisisFirst ==
    [][ ( /\ last'.op = "process_input"
          /\ Occurring(crisis_keywords, last'.user_input) # {} )
        => /\ last'.ret = _handle_crisis_situation
           /\ Head(last'.ret) = CrisisOpening
           /\ thoughts'[Len(thoughts')]
                 = <<"Detected crisis situation, providing emergency resources">>
      ]_vars

\* C17 witness: an input with a crisis keyword that is also a sensitive
\* topic, a medical claim and a question about EneHealths got the crisis
\* response.
C17_Witness ==
    /\ last.op = "process_input"
    /\ 3 \in Occurring(crisis_keywords, last.user_input)
    /\ 1 \in Occurring(sensitive_topics, last.user_input)
    /\ Occurring(medical_claims, last.user_input) # {}
    /\ Occurring(about_keywords, last.user_input) # {}
    /\ Head(last.ret) = CrisisOpening

\* C18: an input that contains a sensitive topic but no crisis keyword is
\* handled as sensitive and not as crisis: process_input returns the
\* sensitive-topic response naming the first topic of sensitive_topics that
\* occurs in the text (never None), ahead of hallucination detection and of
\* the regular responses.
C18_SensitiveTopicNamed ==
    [][ ( /\ last'.op = "process_input"
          /\ Occurring(crisis_keywords, last'.user_input) = {}
          /\ Occurring(sensitive_topics, last'.user_input) # {} )
        => LET topic == sensitive_topics[
                            Least(Occurring(sensitive_topics, last'.user_input))]
               ret == last'.ret
           IN  /\ Head(ret) = SensitiveOpening
               /\ Len(ret) >= 2 + Len(topic)
               /\ SubSeq(ret, 2, 1 + Len(topic)) = topic
               /\ ret[2 + Len(topic)]
                     = ", which is an important mental health concern. "
               /\ SubSeq(ret, 2, 2) # None
               /\ ret # _handle_crisis_situation
               /\ thoughts'[Len(thoughts')]
                     = <<"Detected sensitive topic, providing careful response">>
      ]_vars

\* C18 witness: an input with 'trauma' before 'abuse' and with medical
\* claims, but no crisis keyword, got the sensitive-topic response naming
\* 'abuse'.
C18_Witness ==
    /\ last.op = "process_input"
    /\ Occurring(crisis_keywords, last.user_input) = {}
    /\ Occurring(sensitive_topics, last.user_input) = {3, 4}
    /\ Occurring(medical_claims, last.user_input) # {}
    /\ Head(last.ret) = SensitiveOpening
    /\ SubSeq(last.ret, 2, 6) = <<"a","b","u","s","e">>

\* C19: the crisis response includes every configured support resource, one
\* line per entry of support_resources, together with the instruction to
\* call emergency services (911), and it is the response to every input
\* classified as a crisis.
C19_CrisisResources ==
    [][ ( /\ last'.op = "process_input"
          /\ _is_crisis_situation(last'.user_input) )
        => LET ret == last'.ret
               lines == { k \in 1..Len(ret) : ret[k] = "- " }
           IN  /\ \A i \in 1..Len(support_resources) :
                     Contains(ret, <<"- ">> \o support_resources[i].info \o <<"\n">>)
               /\ Cardinality(lines) = Len(support_resources)
               /\ Len(support_resources) = 4
               /\ ret[Len(ret)]
                     = "\nIf you're in immediate danger, please call emergency services (911) or go to your nearest emergency room."
      ]_vars

\* C19 witness: an input classified as a crisis by a keyword in upper case
\* got a response that ends with the 988 lifeline among its resources.
C19_Witness ==
    /\ last.op = "process_input"
    /\ Contains(last.user_input, <<"E","M","E","R","G","E","N","C","Y">>)
    /\ Contains(last.ret, <<"- ", "988 Suicide & Crisis Lifeline (call or text 988)", "\n">>)
    /\ Contains(last.ret, <<"- ", "SAMHSA's National Helpline: 1-800-662-HELP (4357)", "\n">>)

\* C20: a question about EneHealths (an input containing 'about enehealths',
\* 'what is enehealths' or 'who are you', and no crisis keyword, sensitive
\* topic or hallucination phrase) is answered with the organization's
\* mission and vision, ahead of the services, topic, FAQ and default
\* responses.
C20_AboutAnswered ==
    [][ ( /\ last'.op = "process_input"
          /\ Occurring(about_keywords, last'.user_input) # {}
          /\ Occurring(crisis_keywords, last'.user_input) = {}
          /\ Occurring(sensitive_topics, last'.user_input) = {}
          /\ Occurring(medical_claims, last'.user_input) = {} )
        => /\ Contains(last'.ret, organization.mission)
           /\ Contains(last'.ret, organization.vision)
           /\ last'.ret = _get_about_response
           /\ last'.ret # _get_services_response
           /\ last'.ret # default_response
      ]_vars

\* C20 witness: a question about EneHealths that also has a services
\* keyword, a mental health topic and the words of an FAQ got the about
\* response.
C20_Witness ==
    /\ last.op = "process_input"
    /\ 3 \in Occurring(about_keywords, last.user_input)
    /\ Occurring(services_keywords, last.user_input) # {}
    /\ Occurring(mental_health_topics, last.user_input) # {}
    /\ FaqsOccurring(last.user_input) # {}
    /\ Occurring(crisis_keywords, last.user_input) = {}
    /\ Occurring(sensitive_topics, last.user_input) = {}
    /\ Occurring(medical_claims, last.user_input) = {}
    /\ Contains(last.ret, organization.mission \o <<"\n\n", "Our vision is ">>
                              \o organization.vision)

---------------------------------------------------------------------------
(* Properties of SimpleThoughtTracker, checked under SpecTracker. *)

\* the last n elements of a sequence, all of it when it is shorter
LastN(s, n) ==
    IF n >= Len(s) THEN s ELSE SubSeq(s, Len(s) - n + 1, Len(s))

\* C21: SimpleThoughtTracker is a bounded FIFO history: after any sequence
\* of add_thought calls the history holds at most max_history entries, equal
\* to the most recently added thoughts in the order they were added; when
\* the bound is exceeded the oldest entry is the one dropped.
C21_BoundedFifo ==
    /\ Len(thoughts) <= tracker_max_history
    /\ thoughts = LastN(added, tracker_max_history)
    /\ last.op = "get_thoughts" => last.ret = LastN(added, tracker_max_history)

\* C21 witness: a tracker built with max_history 2 was given four thoughts,
\* the first two unlike the last two, and holds the last two.
C21_Witness ==
    /\ tracker_max_history = 2
    /\ Len(added) = 4
    /\ last.op = "add_thought"
    /\ added[3] # added[4]
    /\ added[1] # added[3]
    /\ added[2] # added[4]
    /\ thoughts = <<added[3], added[4]>>

---------------------------------------------------------------------------
(* Properties of the demo loop of main(), checked under SpecAgent. *)

\* the thoughts given to add_thought are those of the first n scenarios of
\* the demo loop, in order
DemoLoopAfter(n) ==
    /\ n <= Len(scenarios)
    /\ Len(added) = 2 * n
    /\ \A j \in 1..n : added[2 * j - 1] = <<"Received input: ">> \o scenarios[j]

\* C22: after each process_input call in the demo loop, the last three
\* entries of the thought history (thoughts[-3:], which the loop prints) are
\* all thoughts of that scenario: all three were recorded while processing
\* that call's input, none is an entry the history held before the call.
C22_LastThreeOfScenario ==
    [][ ( /\ last'.op = "process_input"
          /\ \E i \in 1..Len(scenarios) :
                /\ DemoLoopAfter(i - 1)
                /\ last'.user_input = scenarios[i] )
        => LET shown == LastN(thoughts', 3)
           IN  /\ SubSeq(thoughts', 1, Len(thoughts)) = thoughts
               /\ Len(thoughts') - Len(shown) >= Len(thoughts)
      ]_vars

\* the words of the self-harm scenarios of main() and of ene_health_demo.py
HurtingMyself ==
    <<"h","u","r","t","i","n","g"," ","m","y","s","e","l","f">>

\* C23: the demo's self-harm scenarios are handled as crisis or sensitive
\* content: process_input on "I'm having thoughts about hurting myself" (and
\* on "... sometimes think about hurting myself") takes the crisis or the
\* sensitive-topic path and never falls through to regular processing or
\* the default response.
C23_SelfHarmScenariosHandled ==
    [][ ( /\ last'.op = "process_input"
          /\ Contains(lower(last'.user_input), HurtingMyself) )
        => /\ Head(last'.ret) \in {CrisisOpening, SensitiveOpening}
           /\ last'.ret # default_response
           /\ thoughts'[Len(thoughts')] # <<"Processing regular input">>
      ]_vars

---------------------------------------------------------------------------
(* Histories of claims and reimbursements, checked under SpecInsurance. *)

\* the positions of a claim's status_history that hold one of the statuses
EntriesWithStatus(claim, statuses) ==
    { k \in 1..Len(claim.status_history) :
          claim.status_history[k].status \in statuses }

\* the positions of the reimbursement records made for a claim id
ReimbursementsOf(re, claim_id) ==
    { k \in 1..Len(re) : re[k].claim_id = claim_id }

\* C24: in every reachable state each stored claim has a non-empty
\* status_history whose first entry has status 'submitted' and whose last
\* entry's status is the claim's current status; status_history only grows,
\* by exactly one entry per successful status change, and earlier entries
\* are never altered.
C24_StatusHistory ==
    [][ /\ \A i \in 1..Len(claims') :
              LET h == claims'[i].status_history
              IN  /\ h # <<>>
                  /\ h[1].status = "submitted"
                  /\ h[Len(h)].status = claims'[i].status
        /\ \A i \in 1..Len(claims) :
              LET h == claims[i].status_history
                  g == claims'[i].status_history
                  changed == /\ last'.op \in {"update_claim_status",
                                               "process_reimbursement"}
                             /\ last'.ret.success
                             /\ last'.claim_id = claims[i].claim_id
              IN  /\ Len(g) = Len(h) + (IF changed THEN 1 ELSE 0)
                  /\ SubSeq(g, 1, Len(h)) = h
      ]_vars

\* C24 witness: a claim was submitted, denied, approved and reimbursed; its
\* history holds the four statuses in that order.
C24_Witness ==
    /\ last.op = "process_reimbursement"
    /\ last.ret.success = TRUE
    /\ Len(claims) = 1
    /\ claims[1].status = "reimbursed"
    /\ [ k \in 1..Len(claims[1].status_history) |->
            claims[1].status_history[k].status ]
         = <<"submitted", "denied", "approved", "reimbursed">>

\* C25: a claim is never reimbursed twice without being re-approved in
\* between: in every reachable state the number of reimbursement records
\* for a claim is at most the number of 'approved' or 'partially_approved'
\* entries in that claim's status_history, and immediately after a
\* successful process_reimbursement a second process_reimbursement on the
\* same claim fails.
C25_NoDoubleReimbursement ==
    [][ /\ \A i \in 1..Len(claims') :
              Cardinality(ReimbursementsOf(reimbursements', claims'[i].claim_id))
                  <= Cardinality(EntriesWithStatus(claims'[i], ApprovedStatuses))
        /\ ( /\ last.op = "process_reimbursement"
             /\ last.ret.success
             /\ last'.op = "process_reimbursement"
             /\ last'.claim_id = last.claim_id )
           => /\ last'.ret.success = FALSE
              /\ reimbursements' = reimbursements
      ]_vars

\* C25 witness: right after the reimbursement of a claim, a second
\* process_reimbursement on that claim was refused; the claim has one
\* approval and one reimbursement record.
C25_Witness ==
    /\ last.op = "process_reimbursement"
    /\ last.ret.success = FALSE
    /\ last.ret.error = <<"Claim not in approved status: ", "reimbursed">>
    /\ \E i \in 1..Len(claims) :
          /\ claims[i].claim_id = last.claim_id
          /\ Cardinality(ReimbursementsOf(reimbursements, last.claim_id)) = 1
          /\ Cardinality(EntriesWithStatus(claims[i], ApprovedStatuses)) = 1
          /\ claims[i].status_history[Len(claims[i].status_history)].status
                = "reimbursed"

\* C26: referential integrity of reimbursements: in every reachable state
\* every reimbursement record's claim_id is the id of a claim in the claims
\* list, and that claim's status_history contains at least as many
\* 'reimbursed' entries as there are reimbursement records for it.
C26_ReimbursementsReferToClaims ==
    \A k \in 1..Len(reimbursements) :
        \E i \in 1..Len(claims) :
            /\ claims[i].claim_id = reimbursements[k].claim_id
            /\ Cardinality(EntriesWithStatus(claims[i], {"reimbursed"}))
                  >= Cardinality(ReimbursementsOf(reimbursements,
                                                  claims[i].claim_id))

\* C26 witness: a reimbursed claim was then marked reimbursed once more by
\* update_claim_status: two 'reimbursed' entries for one reimbursement
\* record.
C26_Witness ==
    /\ last.op = "update_claim_status"
    /\ Len(reimbursements) = 1
    /\ \E i \in 1..Len(claims) :
          /\ claims[i].claim_id = reimbursements[1].claim_id
          /\ Cardinality(EntriesWithStatus(claims[i], {"reimbursed"})) = 2

---------------------------------------------------------------------------
(* Balances and sequence numbers of BillingAgent, checked under            *)
(* SpecBilling.                                                            *)

\* the outstanding balance get_patient_billing_history reports for a patient
OutstandingBalance(txns, invs, patient_id) ==
    get_patient_billing_history(txns, invs, patient_id).outstanding_balance

\* C27: payments never settle invoices: over any sequence of process_payment
\* and generate_invoice calls with non-negative invoice totals, a patient's
\* outstanding_balance as reported by get_patient_billing_history never
\* decreases, because no operation changes the payment_status of a stored
\* invoice; in particular paying the full amount of an unpaid invoice leaves
\* the outstanding balance unchanged.
C27_PaymentsNeverSettle ==
    [][ /\ \A i \in 1..Len(invoices) :
              /\ invoices[i].total_amount >= 0
              /\ invoices'[i].payment_status = invoices[i].payment_status
        /\ \A p \in PatientIds :
              /\ OutstandingBalance(transactions', invoices', p)
                    >= OutstandingBalance(transactions, invoices, p)
              /\ last'.op = "process_payment"
                    => OutstandingBalance(transactions', invoices', p)
                         = OutstandingBalance(transactions, invoices, p)
        /\ last'.op = "get_patient_billing_history"
              => last'.ret.outstanding_balance
                   = OutstandingBalance(transactions, invoices, last'.patient_id)
      ]_vars

\* C27 witness: a patient with one unpaid invoice has paid its full amount,
\* and the outstanding balance is still that amount.
C27_Witness ==
    /\ last.op = "process_payment"
    /\ last.ret.success = TRUE
    /\ Len(invoices) = 1
    /\ invoices[1].patient_id = last.patient_id
    /\ invoices[1].payment_status = "unpaid"
    /\ invoices[1].total_amount = 13000
    /\ last.amount = 13000
    /\ OutstandingBalance(transactions, invoices, last.patient_id) = 13000

\* C28: generated sequence numbers are unique and gap-free: the k-th stored
\* transaction carries sequence number k in its id and the k-th stored
\* invoice carries k in its id, so no two transactions (or two invoices)
\* share a sequence number, and a rejected payment consumes no number.
C28_SequenceNumbers ==
    [][ /\ \A k \in 1..Len(transactions') :
              transactions'[k].transaction_id = <<"TXN", k>>
        /\ \A k \in 1..Len(invoices') :
              invoices'[k].invoice_id = <<"INV", k>>
        /\ \A j, k \in 1..Len(transactions') :
              j # k => transactions'[j].transaction_id[2]
                         # transactions'[k].transaction_id[2]
        /\ \A j, k \in 1..Len(invoices') :
              j # k => invoices'[j].invoice_id[2] # invoices'[k].invoice_id[2]
        /\ ( last'.op = "process_payment" /\ ~last'.ret.success )
              => /\ transactions' = transactions
                 /\ last'.ret.transaction_id = None
        /\ ( last'.op = "process_payment" /\ last'.ret.success )
              => last'.ret.transaction_id = <<"TXN", Len(transactions) + 1>>
      ]_vars

\* C28 witness: a payment was rejected while transaction 1 and invoice 1 were
\* stored, and it returned no transaction id.
C28_Witness ==
    /\ last.op = "process_payment"
    /\ last.ret.success = FALSE
    /\ last.ret.transaction_id = None
    /\ Len(transactions) = 1
    /\ transactions[1].transaction_id = <<"TXN", 1>>
    /\ Len(invoices) = 1
    /\ invoices[1].invoice_id = <<"INV", 1>>

---------------------------------------------------------------------------
(* Thoughts and reachable answers of process_input, checked under          *)
(* SpecAgent.                                                              *)

HallucinationOpening == "I want to make sure I provide accurate information. "

\* the handler path a classification thought names
PathOfThought(thought) ==
    IF thought = <<"Detected crisis situation, providing emergency resources">>
    THEN "crisis"
    ELSE IF thought = <<"Detected sensitive topic, providing careful response">>
    THEN "sensitive"
    ELSE IF Len(thought) > 1 /\ Head(thought) = "Potential hallucination detected: "
    THEN "hallucination"
    ELSE IF thought = <<"Processing regular input">>
    THEN "regular"
    ELSE "none"

\* the handler path a response comes from, told by its opening sentence
PathOfResponse(response) ==
    IF Head(response) = CrisisOpening THEN "crisis"
    ELSE IF Head(response) = SensitiveOpening THEN "sensitive"
    ELSE IF Head(response) = HallucinationOpening THEN "hallucination"
    ELSE "regular"

\* C29: every process_input call records exactly two thoughts, in this
\* order: 'Received input: <input>' and then exactly one classification
\* thought (crisis, sensitive topic, potential hallucination, or regular
\* input), and exactly one of the four handler paths, the one the
\* classification thought names, produces the returned response.
C29_TwoThoughtsPerCall ==
    [][ last'.op = "process_input"
        => /\ Len(thoughts') = Len(thoughts) + 2
           /\ SubSeq(thoughts', 1, Len(thoughts)) = thoughts
           /\ thoughts'[Len(thoughts) + 1]
                 = <<"Received input: ">> \o last'.user_input
           /\ PathOfThought(thoughts'[Len(thoughts) + 2])
                 \in {"crisis", "sensitive", "hallucination", "regular"}
           /\ PathOfThought(thoughts'[Len(thoughts) + 2])
                 = PathOfResponse(last'.ret)
           /\ PathOfThought(thoughts'[Len(thoughts) + 2]) = "hallucination"
                 => thoughts'[Len(thoughts) + 2]
                      = <<"Potential hallucination detected: ">>
                        \o SubSeq(last'.ret, 2, Len(last'.ret) - 2)
      ]_vars

\* C29 witness: the second call got the hallucination response, and the
\* history holds its two thoughts after the two of the first call.
C29_Witness ==
    /\ last.op = "process_input"
    /\ Len(thoughts) = 4
    /\ thoughts[3] = <<"Received input: ">> \o last.user_input
    /\ PathOfThought(thoughts[4]) = "hallucination"
    /\ PathOfResponse(last.ret) = "hallucination"
    /\ PathOfThought(thoughts[2]) = "regular"

\* the answers the knowledge base holds for 'trauma', 'crisis support' and
\* 'support groups', and the 'crisis_help' FAQ answer
UnreachableAnswers ==
    { _get_topic_info(mental_health_topics[4]),
      _get_topic_info(mental_health_topics[9]),
      _get_topic_info(mental_health_topics[10]),
      faqs[4].answer }

\* C30: because of the fixed check order, some knowledge-base entries are
\* unreachable: for no input does process_input return the topic information
\* for 'trauma', 'crisis support' or 'support groups', nor the 'crisis_help'
\* FAQ answer, since any input containing them is intercepted earlier by the
\* sensitive-topic check ('trauma', 'crisis') or by the services keywords
\* ('support', 'help').
C30_UnreachableEntries ==
    [][ last'.op = "process_input"
        => /\ last'.ret \notin UnreachableAnswers
           /\ ( \/ Contains(lower(last'.user_input), sensitive_topics[4])
                \/ Contains(lower(last'.user_input), sensitive_topics[7]) )
                 => PathOfResponse(last'.ret) \in {"crisis", "sensitive"}
           /\ ( /\ PathOfResponse(last'.ret) = "regular"
                /\ \/ Contains(lower(last'.user_input), services_keywords[3])
                   \/ Contains(lower(last'.user_input), services_keywords[2]) )
                 => last'.ret \in {_get_about_response, _get_services_response}
      ]_vars

\* C30 witness: an input naming 'support groups' was answered with the list
\* of services.
C30_Witness ==
    /\ last.op = "process_input"
    /\ Contains(lower(last.user_input), mental_health_topics[10])
    /\ last.ret = _get_services_response

====
